---- MODULE Spec2Model ----
(***************************************************************************)
(* Verification model of the Expanded Auditing Control                     *)
(* (turnerbenjamin/poc_expanded_audit_control).                            *)
(*                                                                         *)
(* Components modelled:                                                    *)
(*   - ServiceEntityQueryParser  (control config validation)               *)
(*   - mergeSortedArrays / AuditDetailItem.comparer                        *)
(*   - AuditDetailItem construction (change data / target records)         *)
(*   - EntityMetadataCollection  (local-storage backed metadata cache)     *)
(*                                                                         *)
(* Every component has its own specification (SpecParser, SpecMerge,       *)
(* SpecAudit, SpecCache, ...); the variables of the other components stay  *)
(* at their idle values.                                                   *)
(***************************************************************************)
EXTENDS Integers, Sequences, FiniteSets, TLC

VARIABLES
    configJson,             \* argument of ServiceEntityQueryParser.parse
    _includesManyToMany,    \* ServiceEntityQueryParser._includesManyToMany (static)
    parseResult,            \* outcome of the parse call
    arraysToMerge,          \* argument of mergeSortedArrays
    mergeResult,            \* outcome of the mergeSortedArrays call
    rawAuditDetail,         \* argument of new AuditDetailItem(...)
    auditDetailItem,        \* outcome of the constructor call
    localStorage,           \* window.localStorage[_localStorageKey]
    _entityMetadataMap,     \* EntityMetadataCollection._entityMetadataMap
    cacheOps,               \* number of cache operations performed (bounded)
    lastCall,               \* the cache operation performed last, with its result
    compareArgs,            \* arguments of AuditDetailItem.comparer
    compareResult,          \* outcome of the comparer call
    payload,                \* argument of extractEntityReferencesFromEntity
    entityReferences,       \* outcome of the extraction call
    controllerPc,           \* where getExpandedAuditRecords stands
    collaboratorCalls,      \* calls made to the service's fetch methods, in order
    controllerResult,       \* outcome of getExpandedAuditRecords
    rawRowData,             \* AuditTableData.rawRowData
    _recordIdToDisplayNameMap, \* RecordDisplayNameCollection._recordIdToDisplayNameMap
    enrichPc,               \* where enrichRowData stands
    metadataRequests,       \* requests handed to fetchEntityMetadata, in order
    metadataSettled,        \* per metadata request: pending, or how it settled
    recordRequests,         \* requests handed to fetchMultipleRecords, in order
    recordSettled,          \* per record request: pending, or how it settled
    rowData,                \* AuditTableData.rowData
    enrichLog,              \* what the pass has done so far, in order
    atStart,                \* the two caches as they were when the pass started
    webApiQuery,            \* outcome of BuildWebApiQueryFromServiceEntityQuery
    isLoading,              \* useAuditRecords: the isLoading state
    error,                  \* useAuditRecords: the error state
    tableData,              \* useAuditRecords: the tableData state
    rendered,               \* the state values the last render has seen
    fetchAuditRecordsSees,  \* isLoading as closed over by fetchAuditRecords
    isMounted,              \* isMounted.current
    effectPending,          \* the effect on [fetchAuditRecords] has yet to run
    expandedAuditRequests   \* getExpandedAuditRecords calls: pending or settled

vars == <<configJson, _includesManyToMany, parseResult, arraysToMerge,
          mergeResult, rawAuditDetail, auditDetailItem, localStorage,
          _entityMetadataMap, cacheOps, lastCall, compareArgs, compareResult,
          payload, entityReferences, controllerPc, collaboratorCalls,
          controllerResult, rawRowData, _recordIdToDisplayNameMap, enrichPc,
          metadataRequests, metadataSettled, recordRequests, recordSettled,
          rowData, enrichLog, atStart, webApiQuery, isLoading, error,
          tableData, rendered, fetchAuditRecordsSees, isMounted,
          effectPending, expandedAuditRequests>>

parserVars == <<configJson, _includesManyToMany, parseResult>>
mergeVars == <<arraysToMerge, mergeResult>>
auditVars == <<rawAuditDetail, auditDetailItem>>
cacheVars == <<localStorage, _entityMetadataMap, cacheOps, lastCall>>
comparerVars == <<compareArgs, compareResult>>
extractVars == <<payload, entityReferences>>
controllerVars == <<controllerPc, collaboratorCalls, controllerResult>>
enrichVars == <<rawRowData, _recordIdToDisplayNameMap, enrichPc,
                metadataRequests, metadataSettled, recordRequests,
                recordSettled, rowData, enrichLog, atStart>>
builderVars == <<webApiQuery>>
hookVars == <<isLoading, error, tableData, rendered, fetchAuditRecordsSees,
              isMounted, effectPending, expandedAuditRequests>>

(***************************************************************************)
(* JavaScript values.  A value is a record tagged with its type; an object *)
(* is a function from its own property keys to values, an array a          *)
(* sequence.  A property holding Undefined stands for an absent property   *)
(* (JSON cannot carry undefined).                                          *)
(***************************************************************************)
Undefined == [t |-> "undefined"]
Null == [t |-> "null"]
Str(s) == [t |-> "string", v |-> s]
Num(n) == [t |-> "number", v |-> n]
Bool(b) == [t |-> "boolean", v |-> b]
Arr(s) == [t |-> "array", v |-> s]
Obj(f) == [t |-> "object", v |-> f]

\* o[k] / o.k : undefined for an absent key and for a primitive receiver.
\* (Reading a property of null or undefined throws; callers test IsNullish.)
Get(o, k) ==
    IF o.t = "object" /\ k \in DOMAIN o.v THEN o.v[k] ELSE Undefined

IsNullish(x) == x.t \in {"undefined", "null"}

\* Strings that String.prototype.trim() reduces to "".
BlankStrings == {"", " "}

\* Idle values of the variables
Pending == [kind |-> "pending"]
Idle == [kind |-> "idle"]

(***************************************************************************)
(* ServiceEntityQueryParser                                                *)
(***************************************************************************)
_baseErrorMessage == "Unable to parse control config json."
_maximumExpandDepth == 4

MsgPrimaryRequired == "primaryEntityLogicalName is required"
MsgExpandArray == "Expand arrays must include at least 1 element"
MsgManyToMany == "WebApi supports expansion of N:N relationships and nested expansions. However, it does not support both in the same query"
MsgMaxDepth == "Maximum expand depth (4) exceeded."
MsgPropertyName == "Expand items must include a propertyName definition"
MsgRelatedEntity == "Expand items must include a relatedEntityLogicalName definition"
MsgIsManyToMany == "isManyToMany must be a boolean"

\* A validator returns an error message or undefined (msg = ""), or throws;
\* flag is the value of the static _includesManyToMany when it does.
Returned(msg, flag) == [thrown |-> "none", msg |-> msg, flag |-> flag]
Threw(kind, flag) == [thrown |-> kind, msg |-> "", flag |-> flag]

isValidString(candidate) ==
    candidate.t = "string" /\ candidate.v \notin BlankStrings

isValidArray(candidate, minLength) ==
    candidate.t = "array" /\ Len(candidate.v) >= minLength

isValidBool(candidate) == candidate.t = "boolean"

RECURSIVE validateExpandProperty(_, _, _)
RECURSIVE validateExpandItem(_, _, _)
RECURSIVE validateExpandArray(_, _, _, _)

\* The for loop of validateExpandProperty, from item i on.
validateExpandArray(expandArray, i, depth, flag) ==
    IF i > Len(expandArray) THEN Returned("", flag)
    ELSE LET r == validateExpandItem(expandArray[i], depth, flag)
         IN  IF r.thrown # "none" \/ r.msg # "" THEN r
             ELSE validateExpandArray(expandArray, i + 1, depth, r.flag)

\* validateExpandProperty with the depth test off by one towards leniency
validateExpandPropertyDeeper(expandCandidate, depth, flag) ==
    IF expandCandidate.t = "undefined" THEN Returned("", flag)
    ELSE IF ~isValidArray(expandCandidate, 1) THEN Returned(MsgExpandArray, flag)
    ELSE IF depth > 1 /\ flag THEN Returned(MsgManyToMany, flag)
    ELSE IF depth > _maximumExpandDepth + 1 THEN Returned(MsgMaxDepth, flag)
    ELSE validateExpandArray(expandCandidate.v, 1, depth, flag)

\* validateExpandProperty with the depth test off by one towards strictness
validateExpandPropertyShallower(expandCandidate, depth, flag) ==
    IF expandCandidate.t = "undefined" THEN Returned("", flag)
    ELSE IF ~isValidArray(expandCandidate, 1) THEN Returned(MsgExpandArray, flag)
    ELSE IF depth > 1 /\ flag THEN Returned(MsgManyToMany, flag)
    ELSE IF depth >= _maximumExpandDepth THEN Returned(MsgMaxDepth, flag)
    ELSE validateExpandArray(expandCandidate.v, 1, depth, flag)

validateExpandProperty(expandCandidate, depth, flag) ==
    IF expandCandidate.t = "undefined" THEN Returned("", flag)
    ELSE IF ~isValidArray(expandCandidate, 1) THEN Returned(MsgExpandArray, flag)
    ELSE IF depth > 1 /\ flag THEN Returned(MsgManyToMany, flag)
    ELSE IF depth > _maximumExpandDepth THEN Returned(MsgMaxDepth, flag)
    ELSE validateExpandArray(expandCandidate.v, 1, depth, flag)

validateExpandItem(candidateExpandItem, depth, flag) ==
    IF IsNullish(candidateExpandItem) THEN Threw("TypeError", flag)
    ELSE IF ~isValidString(Get(candidateExpandItem, "propertyName"))
        THEN Returned(MsgPropertyName, flag)
    ELSE IF ~isValidString(Get(candidateExpandItem, "relatedEntityLogicalName"))
        THEN Returned(MsgRelatedEntity, flag)
    ELSE IF ~isValidBool(Get(candidateExpandItem, "isManyToMany"))
        THEN Returned(MsgIsManyToMany, flag)
    ELSE validateExpandProperty(
            Get(candidateExpandItem, "expand"),
            depth + 1,
            flag \/ Get(candidateExpandItem, "isManyToMany").v)

validateServiceEntityQuery(config, flag) ==
    IF IsNullish(config) \/ config.t \notin {"object", "array"}
        THEN Threw("ControlOperationalError", flag)
    ELSE IF ~isValidString(Get(config, "primaryEntityLogicalName"))
        THEN Returned(MsgPrimaryRequired, flag)
    ELSE validateExpandProperty(Get(config, "expand"), 1, flag)

\* A JSON text: either one JSON.parse rejects, or the text of a value.
MalformedJson == [syntaxOk |-> FALSE, value |-> Undefined]
JsonText(value) == [syntaxOk |-> TRUE, value |-> value]

Accepted(value, flag) ==
    [kind |-> "ok", message |-> <<>>, value |-> value, flag |-> flag]
Failed(kind, message, flag) ==
    [kind |-> kind, message |-> message, value |-> Undefined, flag |-> flag]

\* The first statement of parse without its assignment: the flag keeps what
\* the call before left in it.
includesManyToManyKept(static) == static = Bool(TRUE)

\* this._includesManyToMany = false, whatever the static field held.
includesManyToManyAtStart(static) == FALSE

\* parse(configJson) in a program whose static flag holds `static`: the
\* outcome and the static flag the call leaves behind.
parseFrom(json, static) ==
    IF ~json.syntaxOk
        THEN Failed("ControlOperationalError", <<_baseErrorMessage>>,
                    includesManyToManyAtStart(static))
    ELSE LET r == validateServiceEntityQuery(
                      json.value, includesManyToManyAtStart(static))
         IN  IF r.thrown = "ControlOperationalError"
                 THEN Failed(r.thrown, <<_baseErrorMessage>>, r.flag)
             ELSE IF r.thrown # "none" THEN Failed(r.thrown, <<>>, r.flag)
             ELSE IF r.msg # ""
                 THEN Failed("ControlOperationalError",
                             <<_baseErrorMessage, r.msg>>, r.flag)
             ELSE Accepted(json.value, r.flag)

\* parse(configJson) in the program as it stands.
parse(json) == parseFrom(json, _includesManyToMany)

(***************************************************************************)
(* Control configs handed to parse: every expand tree of at most MaxItems  *)
(* expand items in all, with any isManyToMany labelling, and with at most  *)
(* one flaw (a missing or blank name, a non-boolean isManyToMany, an empty *)
(* expand array, a null item, a bad root).  A tree is drawn as the         *)
(* sequence of the depths of its items in document order.                  *)
(***************************************************************************)
MaxItems == 5

ExpandItem(p, r, m, e) ==
    Obj([propertyName |-> p, relatedEntityLogicalName |-> r,
         isManyToMany |-> m, expand |-> e])

ServiceEntityQuery(primary, e) ==
    Obj([primaryEntityLogicalName |-> primary, expand |-> e])

RECURSIVE DepthSeqs(_)

\* The depth sequences of the expand trees of n items: the first item is at
\* depth 1, an item is at most one level below the item before it.
DepthSeqs(n) ==
    IF n = 0 THEN {<<>>}
    ELSE IF n = 1 THEN {<<1>>}
    ELSE UNION { {Append(d, k) : k \in 1..(d[n - 1] + 1)} : d \in DepthSeqs(n - 1) }

\* The items nested directly in item i (all top-level items for i = 0).
ChildrenOf(depths, i) ==
    { j \in (i + 1)..Len(depths) :
        /\ depths[j] = (IF i = 0 THEN 1 ELSE depths[i] + 1)
        /\ \A k \in (i + 1)..j : i = 0 \/ depths[k] > depths[i] }

RECURSIVE Ascending(_)
Ascending(S) ==
    IF S = {} THEN <<>>
    ELSE LET least == CHOOSE x \in S : \A y \in S : x <= y
         IN  <<least>> \o Ascending(S \ {least})

NoFlaw == [at |-> 0, kind |-> "none"]
HeadFlaws == {"propertyNameBlank", "relatedEntityMissing", "isManyToManyString"}
LeafFlaws == {"expandEmpty", "itemNull"}

FlawsOf(depths) ==
    {NoFlaw}
    \cup { [at |-> i, kind |-> k] : i \in 1..Len(depths), k \in HeadFlaws }
    \cup { [at |-> i, kind |-> k] :
               i \in {j \in 1..Len(depths) : ChildrenOf(depths, j) = {}},
               k \in LeafFlaws }

RECURSIVE BuildItem(_, _, _, _)

BuildExpand(depths, manyToMany, flaw, i) ==
    LET children == Ascending(ChildrenOf(depths, i))
    IN  IF children = <<>>
            THEN IF flaw.at = i /\ flaw.kind = "expandEmpty"
                     THEN Arr(<<>>) ELSE Undefined
            ELSE Arr([k \in 1..Len(children) |->
                          BuildItem(depths, manyToMany, flaw, children[k])])

BuildItem(depths, manyToMany, flaw, i) ==
    LET is(kind) == flaw.at = i /\ flaw.kind = kind
    IN  IF is("itemNull") THEN Null
        ELSE ExpandItem(
                IF is("propertyNameMissing") THEN Undefined
                    ELSE IF is("propertyNameBlank") THEN Str(" ")
                    ELSE Str("prop"),
                IF is("relatedEntityMissing") THEN Undefined ELSE Str("entity"),
                IF is("isManyToManyString") THEN Str("true")
                    ELSE Bool(manyToMany[i]),
                BuildExpand(depths, manyToMany, flaw, i))

BuildConfig(depths, manyToMany, flaw) ==
    ServiceEntityQuery(Str("entity"), BuildExpand(depths, manyToMany, flaw, 0))

\* Configs whose flaw is at the root.
BadRootJsons ==
    { JsonText(ServiceEntityQuery(p, e)) :
          p \in {Undefined, Str("")},
          e \in {Undefined, Arr(<<ExpandItem(Str("prop"), Str("entity"),
                                             Bool(TRUE), Undefined)>>)} }
    \cup
    { JsonText(ServiceEntityQuery(Str("entity"), e)) : e \in {Arr(<<>>), Null} }
    \cup
    { MalformedJson, JsonText(Null), JsonText(Num(1)), JsonText(Arr(<<>>)) }

ParserInit ==
    /\ \/ \E n \in 0..MaxItems :
            \E depths \in DepthSeqs(n) :
              \E manyToMany \in [1..n -> BOOLEAN], flaw \in FlawsOf(depths) :
                configJson = JsonText(BuildConfig(depths, manyToMany, flaw))
       \/ configJson \in BadRootJsons
    /\ _includesManyToMany \in {Undefined, Bool(TRUE)}
    /\ parseResult = Pending

\* ServiceEntityQueryParser.parse(configJson)
Parse ==
    /\ parseResult = Pending
    /\ LET r == parse(configJson)
       IN  /\ parseResult' = [kind |-> r.kind, message |-> r.message,
                              value |-> r.value]
           /\ _includesManyToMany' = Bool(r.flag)
    /\ UNCHANGED configJson


(***************************************************************************)
(* DataverseService.BuildWebApiQueryFromServiceEntityQuery                 *)
(*                                                                         *)
(* A query string is drawn as the sequence of its pieces.  A builder       *)
(* returns the pieces or throws.                                           *)
(***************************************************************************)
QueryText(text) == [thrown |-> "none", text |-> text]
BuildThrew(kind) == [thrown |-> kind, text |-> <<>>]

\* `${value}` in a template literal.
Interpolated(value) ==
    IF value.t = "string" THEN value.v ELSE value.t

\* value ? ... : ... : the truthiness of a value.
ToBoolean(value) ==
    /\ ~IsNullish(value)
    /\ value.t = "string" => value.v # ""
    /\ value.t = "boolean" => value.v
    /\ value.t = "number" => value.v # 0

buildSelectQuery(entityLogicalName) ==
    <<"$select=", Interpolated(entityLogicalName), "id">>

RECURSIVE buildExpandQuery(_, _)
RECURSIVE buildExpandValues(_, _, _)

\* The for loop of buildExpandQuery, from item i on: the expand values
\* joined by ",".
buildExpandValues(expandedItems, i, depth) ==
    IF i > Len(expandedItems) THEN QueryText(<<>>)
    ELSE LET expandedItem == expandedItems[i]
             select == buildSelectQuery(
                           Get(expandedItem, "relatedEntityLogicalName"))
             expand == IF ~ToBoolean(Get(expandedItem, "expand"))
                           THEN QueryText(<<>>)
                       ELSE buildExpandQuery(Get(expandedItem, "expand"),
                                             depth + 1)
             rest == buildExpandValues(expandedItems, i + 1, depth)
         IN  IF IsNullish(expandedItem) THEN BuildThrew("TypeError")
             ELSE IF expand.thrown # "none" THEN expand
             ELSE IF rest.thrown # "none" THEN rest
             ELSE QueryText(<<Interpolated(Get(expandedItem, "propertyName")), "(">>
                        \o select \o <<";">> \o expand.text \o <<")">>
                        \o (IF rest.text = <<>> THEN <<>> ELSE <<",">>)
                        \o rest.text)

\* for (... of expandedItems) throws a TypeError unless expandedItems can
\* be iterated.
buildExpandQuery(expandedItems, depth) ==
    IF depth > 4 THEN BuildThrew("ControlOperationalError")
    ELSE IF expandedItems.t # "array" THEN BuildThrew("TypeError")
    ELSE LET values == buildExpandValues(expandedItems.v, 1, depth)
         IN  IF values.thrown # "none" THEN values
             ELSE QueryText(<<"$expand=">> \o values.text)

BuildWebApiQueryFromServiceEntityQuery(entityId, entityQuery) ==
    LET select == buildSelectQuery(Get(entityQuery, "primaryEntityLogicalName"))
        expand == buildExpandQuery(Get(entityQuery, "expand"), 1)
    IN  IF expand.thrown # "none" THEN expand
        ELSE QueryText(<<"?">> \o select \o <<"&">> \o expand.text
                   \o <<"&", "$filter=",
                        Interpolated(Get(entityQuery, "primaryEntityLogicalName")),
                        "id", " eq ", entityId>>)

\* fetchRecordAndRelatedRecords up to its await, for the config parse has
\* accepted.
BuildQuery ==
    /\ parseResult.kind = "ok"
    /\ webApiQuery = Pending
    /\ webApiQuery' = BuildWebApiQueryFromServiceEntityQuery(
                          "id1", parseResult.value)
    /\ UNCHANGED parserVars

(***************************************************************************)
(* Specifications                                                          *)
(***************************************************************************)
\* parse called again, with any config, after an earlier call has returned
\* or thrown.  before is what the static flag held when the call began.
MaxItemsAgain == 2

ConfigsAgain ==
    { JsonText(BuildConfig(depths, manyToMany, flaw)) :
          <<depths, manyToMany, flaw>> \in
              UNION { UNION { {<<d, m, f>> : m \in [1..n -> BOOLEAN],
                                            f \in FlawsOf(d)} :
                              d \in DepthSeqs(n) } : n \in 0..MaxItemsAgain } }
    \cup BadRootJsons

ParserInitAgain ==
    /\ configJson \in ConfigsAgain
    /\ _includesManyToMany = Undefined
    /\ parseResult = Pending

ParseAgain ==
    /\ parseResult.kind \notin {"pending", "idle"}
    /\ \E json \in ConfigsAgain :
          LET r == parse(json)
          IN  /\ configJson' = json
              /\ parseResult' = [kind |-> r.kind, message |-> r.message,
                                 value |-> r.value,
                                 before |-> _includesManyToMany]
              /\ _includesManyToMany' = Bool(r.flag)

ParserIdle ==
    /\ configJson = MalformedJson
    /\ _includesManyToMany = Undefined
    /\ parseResult = Idle
MergeIdle == arraysToMerge = <<>> /\ mergeResult = Idle
AuditIdle == rawAuditDetail = Undefined /\ auditDetailItem = Idle
CacheIdle ==
    /\ localStorage = Null
    /\ _entityMetadataMap = Undefined
    /\ cacheOps = 0
    /\ lastCall = Idle

ComparerIdle == compareArgs = <<>> /\ compareResult = Idle
ExtractIdle == payload = Undefined /\ entityReferences = Idle
ControllerIdle ==
    /\ controllerPc = "idle"
    /\ collaboratorCalls = <<>>
    /\ controllerResult = Idle
EnrichIdle ==
    /\ rawRowData = <<>>
    /\ _recordIdToDisplayNameMap = Undefined
    /\ enrichPc = "idle"
    /\ metadataRequests = <<>>
    /\ metadataSettled = <<>>
    /\ recordRequests = <<>>
    /\ recordSettled = <<>>
    /\ rowData = Undefined
    /\ enrichLog = <<>>
    /\ atStart = Idle

BuilderIdle == webApiQuery = Idle
HookIdle ==
    /\ isLoading = FALSE
    /\ error = Undefined
    /\ tableData = Undefined
    /\ rendered = Idle
    /\ fetchAuditRecordsSees = FALSE
    /\ isMounted = FALSE
    /\ effectPending = FALSE
    /\ expandedAuditRequests = <<>>

InitParser ==
    /\ ParserInit /\ MergeIdle /\ AuditIdle /\ CacheIdle
    /\ BuilderIdle /\ HookIdle
    /\ ComparerIdle /\ ExtractIdle /\ ControllerIdle /\ EnrichIdle
NextParser ==
    /\ Parse
    /\ UNCHANGED <<builderVars, hookVars,
                   mergeVars, auditVars, cacheVars, comparerVars, extractVars,
                   controllerVars, enrichVars>>
SpecParser == InitParser /\ [][NextParser]_vars

InitParseAgain ==
    /\ ParserInitAgain /\ MergeIdle /\ AuditIdle /\ CacheIdle
    /\ BuilderIdle /\ HookIdle
    /\ ComparerIdle /\ ExtractIdle /\ ControllerIdle /\ EnrichIdle
NextParseAgain ==
    /\ (Parse \/ ParseAgain)
    /\ UNCHANGED <<builderVars, hookVars,
                   mergeVars, auditVars, cacheVars, comparerVars, extractVars,
                   controllerVars, enrichVars>>
SpecParseAgain == InitParseAgain /\ [][NextParseAgain]_vars

InitBuild ==
    /\ ParserInit /\ MergeIdle /\ AuditIdle /\ CacheIdle
    /\ webApiQuery = Pending /\ HookIdle
    /\ ComparerIdle /\ ExtractIdle /\ ControllerIdle /\ EnrichIdle
NextBuild ==
    \/ /\ Parse
       /\ UNCHANGED <<builderVars, hookVars, mergeVars, auditVars, cacheVars,
                      comparerVars, extractVars, controllerVars, enrichVars>>
    \/ /\ BuildQuery
       /\ UNCHANGED <<hookVars, mergeVars, auditVars, cacheVars,
                      comparerVars, extractVars, controllerVars, enrichVars>>
SpecBuild == InitBuild /\ [][NextBuild]_vars


(***************************************************************************)
(* Claims about ServiceEntityQueryParser                                   *)
(***************************************************************************)
Parsed == parseResult.kind \notin {"pending", "idle"}
Config == configJson.value
RootExpand == Get(Config, "expand")

FailedWith(msg) ==
    /\ parseResult.kind = "ControlOperationalError"
    /\ parseResult.message = <<_baseErrorMessage, msg>>

Max(S) == CHOOSE x \in S : \A y \in S : y <= x

RECURSIVE NestingDepth(_)
\* The number of levels of expand arrays at and below an expand property.
NestingDepth(expand) ==
    IF expand.t # "array" THEN 0
    ELSE 1 + Max({0} \cup { NestingDepth(Get(expand.v[i], "expand")) :
                             i \in 1..Len(expand.v) })

RECURSIVE HasManyToMany(_)
\* Some item at or below the expand property has isManyToMany = true.
HasManyToMany(expand) ==
    /\ expand.t = "array"
    /\ \E i \in 1..Len(expand.v) :
          \/ Get(expand.v[i], "isManyToMany") = Bool(TRUE)
          \/ HasManyToMany(Get(expand.v[i], "expand"))

\* Some top-level item carries an expand array of its own.
HasNestedExpand(expand) ==
    /\ expand.t = "array"
    /\ \E i \in 1..Len(expand.v) : Get(expand.v[i], "expand").t = "array"

RECURSIVE WellFormedExpand(_)
\* Absent, or a non-empty array of objects with non-blank names, a boolean
\* isManyToMany and a well-formed expand (the depth is not looked at).
WellFormedExpand(expand) ==
    \/ expand.t = "undefined"
    \/ /\ expand.t = "array"
       /\ Len(expand.v) >= 1
       /\ \A i \in 1..Len(expand.v) :
            LET item == expand.v[i]
            IN  /\ item.t = "object"
                /\ Get(item, "propertyName").t = "string"
                /\ Get(item, "propertyName").v \notin BlankStrings
                /\ Get(item, "relatedEntityLogicalName").t = "string"
                /\ Get(item, "relatedEntityLogicalName").v \notin BlankStrings
                /\ Get(item, "isManyToMany").t = "boolean"
                /\ WellFormedExpand(Get(item, "expand"))

WellFormedConfig ==
    /\ configJson.syntaxOk
    /\ Config.t = "object"
    /\ Get(Config, "primaryEntityLogicalName").t = "string"
    /\ Get(Config, "primaryEntityLogicalName").v \notin BlankStrings
    /\ WellFormedExpand(RootExpand)

\* C1 (as claimed): an otherwise well-formed config of depth <= 4 that holds a
\* many-to-many item and a nested expand is rejected with the N:N message,
\* wherever the two are in the tree.
C1_ManyToManyWithNestingRejected ==
    (/\ Parsed
     /\ WellFormedConfig
     /\ NestingDepth(RootExpand) <= _maximumExpandDepth
     /\ HasManyToMany(RootExpand)
     /\ HasNestedExpand(RootExpand))
    => FailedWith(MsgManyToMany)

\* C2 (as claimed): a config whose expand nesting reaches depth 5 is rejected
\* with the depth-exceeded message and no other.
C2_DepthFiveAlwaysDepthError ==
    (Parsed /\ configJson.syntaxOk /\ NestingDepth(RootExpand) > _maximumExpandDepth)
    => FailedWith(MsgMaxDepth)

\* C2 (amended): a config whose expand nesting reaches depth 5 is never
\* accepted, and it is rejected with the depth-exceeded message when it is
\* otherwise well-formed and holds no many-to-many item.
C2_DepthFiveRejected ==
    (Parsed /\ configJson.syntaxOk /\ NestingDepth(RootExpand) > _maximumExpandDepth)
    => /\ parseResult.kind # "ok"
       /\ (WellFormedConfig /\ ~HasManyToMany(RootExpand))
              => FailedWith(MsgMaxDepth)

C2_Witness ==
    /\ Parsed
    /\ WellFormedConfig
    /\ NestingDepth(RootExpand) > _maximumExpandDepth
    /\ ~HasManyToMany(RootExpand)
    /\ FailedWith(MsgMaxDepth)

\* C3: a well-formed config of depth <= 4 that holds no many-to-many item, or
\* holds many-to-many items and no nested expand, is returned unchanged.
C3_ValidConfigAccepted ==
    (/\ Parsed
     /\ WellFormedConfig
     /\ NestingDepth(RootExpand) <= _maximumExpandDepth
     /\ (~HasManyToMany(RootExpand) \/ ~HasNestedExpand(RootExpand)))
    => (parseResult.kind = "ok" /\ parseResult.value = Config)

C3_Witness ==
    /\ Parsed
    /\ WellFormedConfig
    /\ NestingDepth(RootExpand) = _maximumExpandDepth
    /\ ~HasManyToMany(RootExpand)
    /\ parseResult.kind = "ok"
    /\ parseResult.value = Config

\* C22: every input that is not a valid descriptor, an expand array holding
\* null included, makes parse fail with a ControlOperationalError and with
\* no other kind of error.
C22_OnlyConfigErrors ==
    Parsed => parseResult.kind \in {"ok", "ControlOperationalError"}

\* C25: the outcome of parse(d) is the outcome parse(d) has in a fresh
\* program, whatever calls went before it.
C25_OutcomeDependsOnConfigOnly ==
    Parsed =>
        LET fresh == parseFrom(configJson, Undefined)
        IN  /\ parseResult.kind = fresh.kind
            /\ parseResult.message = fresh.message
            /\ parseResult.value = fresh.value

\* C24: every descriptor parse accepts is serialized by the query builder
\* without an error, one without an expand property at the root included.
C24_AcceptedConfigIsBuilt ==
    webApiQuery \notin {Pending, Idle} => webApiQuery.thrown = "none"

\* A nested config without a many-to-many item is accepted by a call that
\* follows one which saw a many-to-many item.
C25_Witness ==
    /\ Parsed
    /\ "before" \in DOMAIN parseResult
    /\ parseResult.before = Bool(TRUE)
    /\ HasNestedExpand(RootExpand)
    /\ ~HasManyToMany(RootExpand)
    /\ parseResult.kind = "ok"


(***************************************************************************)
(* AuditDetailItem.comparer and mergeSortedArrays                          *)
(*                                                                         *)
(* An AuditDetailItem is seen here through auditRecord.id and              *)
(* auditRecord.createdOn.  createdOn is a Date object: ref is the identity *)
(* of the object (every item gets its own from `new Date(...)`), time its  *)
(* time value.                                                             *)
(***************************************************************************)
DateObject(ref, time) == [ref |-> ref, time |-> time]

MergeItem(id, time) ==
    [t |-> "object", auditRecord |-> [id |-> id, createdOn |-> DateObject(id, time)]]

\* AuditDetailItem.comparer with the order of the timestamps reversed
comparerReversed(a, b) ==
    IF a.t = "undefined" /\ b.t = "undefined" THEN 0
    ELSE IF b.t = "undefined" THEN 1
    ELSE IF a.t = "undefined" THEN -1
    ELSE IF a.auditRecord.createdOn.ref = b.auditRecord.createdOn.ref THEN 0
    ELSE IF a.auditRecord.createdOn.time < b.auditRecord.createdOn.time THEN 1
    ELSE -1

\* `===` on two Date objects compares identity, `>` their time values.
comparer(a, b) ==
    IF a.t = "undefined" /\ b.t = "undefined" THEN 0
    ELSE IF b.t = "undefined" THEN 1
    ELSE IF a.t = "undefined" THEN -1
    ELSE IF a.auditRecord.createdOn.ref = b.auditRecord.createdOn.ref THEN 0
    ELSE IF a.auditRecord.createdOn.time > b.auditRecord.createdOn.time THEN 1
    ELSE -1

\* array[index] with a zero-based index: undefined past the end.
At(array, index) ==
    IF index + 1 \in 1..Len(array) THEN array[index + 1] ELSE Undefined

RECURSIVE mergeLoopWhileBoth(_, _, _, _, _)
\* The while loop stopping when either array is used up
mergeLoopWhileBoth(sorted, toMerge, sortedIndex, toMergeIndex, merged) ==
    IF ~(sortedIndex < Len(sorted) /\ toMergeIndex < Len(toMerge)) THEN merged
    ELSE IF comparer(At(sorted, sortedIndex), At(toMerge, toMergeIndex)) >= 0
        THEN mergeLoopWhileBoth(sorted, toMerge, sortedIndex + 1, toMergeIndex,
                                Append(merged, At(sorted, sortedIndex)))
        ELSE mergeLoopWhileBoth(sorted, toMerge, sortedIndex, toMergeIndex + 1,
                                Append(merged, At(toMerge, toMergeIndex)))

RECURSIVE mergeLoop(_, _, _, _, _)
\* The while loop of mergeSortedArrays (comparer is the AuditDetailItem.comparer
\* the caller passes).
mergeLoop(sorted, toMerge, sortedIndex, toMergeIndex, merged) ==
    IF ~(sortedIndex < Len(sorted) \/ toMergeIndex < Len(toMerge)) THEN merged
    ELSE IF comparer(At(sorted, sortedIndex), At(toMerge, toMergeIndex)) >= 0
        THEN mergeLoop(sorted, toMerge, sortedIndex + 1, toMergeIndex,
                       Append(merged, At(sorted, sortedIndex)))
        ELSE mergeLoop(sorted, toMerge, sortedIndex, toMergeIndex + 1,
                       Append(merged, At(toMerge, toMergeIndex)))

RECURSIVE mergeFrom(_, _, _)
\* The for loop of mergeSortedArrays, from stream i (zero-based) on.
mergeFrom(arrays, i, sorted) ==
    IF ~(i < Len(arrays)) THEN sorted
    ELSE IF Len(At(arrays, i)) = 0 THEN mergeFrom(arrays, i + 1, sorted)
    ELSE mergeFrom(arrays, i + 1,
                   mergeLoop(sorted, At(arrays, i), 0, 0, <<>>))

mergeSortedArrays(arrays) ==
    IF Len(arrays) = 0 THEN <<>>
    ELSE mergeFrom(arrays, 1, At(arrays, 0))

\* Inputs: at most MaxStreams streams of at most MaxStreamLen entries each,
\* every stream in the time-descending order the change-history request
\* returns, with times drawn from Times.
MaxStreams == 3
MaxStreamLen == 2
Times == 1..3

DescendingTimes ==
    UNION { { ts \in [1..n -> Times] : \A i \in 1..(n - 1) : ts[i] >= ts[i + 1] } :
            n \in 0..MaxStreamLen }

\* The stream at position s of the list, with the times ts: every entry is
\* an item of its own.
StreamOf(s, ts) ==
    [i \in 1..Len(ts) |-> MergeItem(s * (MaxStreamLen + 1) + i, ts[i])]

MergeInit ==
    /\ \E n \in 0..MaxStreams :
         \E tss \in [1..n -> DescendingTimes] :
           arraysToMerge = [s \in 1..n |-> StreamOf(s, tss[s])]
    /\ mergeResult = Pending

\* DataverseService.parseAuditDetailItems: mergeSortedArrays(collection,
\* AuditDetailItem.comparer)
Merge ==
    /\ mergeResult = Pending
    /\ mergeResult' = [kind |-> "ok",
                       value |-> mergeSortedArrays(arraysToMerge)]
    /\ UNCHANGED arraysToMerge

InitMerge ==
    /\ ParserIdle /\ MergeInit /\ AuditIdle /\ CacheIdle
    /\ BuilderIdle /\ HookIdle
    /\ ComparerIdle /\ ExtractIdle /\ ControllerIdle /\ EnrichIdle
NextMerge ==
    /\ Merge
    /\ UNCHANGED <<builderVars, hookVars,
                   parserVars, auditVars, cacheVars, comparerVars, extractVars,
                   controllerVars, enrichVars>>
SpecMerge == InitMerge /\ [][NextMerge]_vars

(***************************************************************************)
(* Claims about mergeSortedArrays                                          *)
(***************************************************************************)
Merged == mergeResult.kind = "ok"

RECURSIVE SumOfLengths(_)
SumOfLengths(arrays) ==
    IF arrays = <<>> THEN 0 ELSE Len(Head(arrays)) + SumOfLengths(Tail(arrays))

TimeOf(item) == item.auditRecord.createdOn.time

DescendingByTime(items) ==
    /\ \A i \in 1..Len(items) : items[i].t = "object"
    /\ \A i \in 1..(Len(items) - 1) : TimeOf(items[i]) >= TimeOf(items[i + 1])

\* C4: merging streams that are each sorted descending by timestamp gives a
\* sequence as long as the inputs together, sorted descending by timestamp.
C4_MergeSortedDescending ==
    (Merged /\ \A s \in 1..Len(arraysToMerge) : DescendingByTime(arraysToMerge[s]))
    => /\ Len(mergeResult.value) = SumOfLengths(arraysToMerge)
       /\ DescendingByTime(mergeResult.value)

\* Scenario B: an entry at T1 in one stream and one at T2 > T1 in a later
\* stream come out as [T2, T1].
C4_Witness ==
    /\ Merged
    /\ Len(arraysToMerge) = 2
    /\ Len(arraysToMerge[1]) = 1
    /\ Len(arraysToMerge[2]) = 1
    /\ TimeOf(arraysToMerge[1][1]) < TimeOf(arraysToMerge[2][1])
    /\ mergeResult.value = <<arraysToMerge[2][1], arraysToMerge[1][1]>>

\* How often x occurs in a sequence, and in the streams together.
Occurrences(items, x) == Cardinality({i \in 1..Len(items) : items[i] = x})
OccurrencesInStreams(streams, x) ==
    Cardinality({p \in (1..Len(streams)) \X (1..MaxStreamLen + 1) :
                    p[2] <= Len(streams[p[1]]) /\ streams[p[1]][p[2]] = x})

\* C26: the output of mergeSortedArrays is a permutation of its input
\* streams put together: it is as long as they are, holds no undefined
\* entry, and every input element occurs in it as often as in the inputs,
\* wherever the empty streams are.
C26_MergeIsPermutation ==
    Merged =>
        /\ Len(mergeResult.value) = SumOfLengths(arraysToMerge)
        /\ \A i \in 1..Len(mergeResult.value) : mergeResult.value[i] # Undefined
        /\ \A s \in 1..Len(arraysToMerge) :
             \A i \in 1..Len(arraysToMerge[s]) :
                Occurrences(mergeResult.value, arraysToMerge[s][i])
                    = OccurrencesInStreams(arraysToMerge, arraysToMerge[s][i])
        /\ \A i \in 1..Len(mergeResult.value) :
             OccurrencesInStreams(arraysToMerge, mergeResult.value[i]) > 0
C26_Witness ==
    /\ Merged
    /\ Len(arraysToMerge) = 3
    /\ arraysToMerge[1] = <<>>
    /\ Len(arraysToMerge[2]) = 2
    /\ Len(arraysToMerge[3]) = 2
    /\ Len(mergeResult.value) = 4


(***************************************************************************)
(* AuditDetailItem (construction from a Web API audit detail)              *)
(*                                                                         *)
(* A Web API record (OldValue, NewValue, a target record) is an ordered    *)
(* list of key/value pairs, in the key order Object.keys and for..in       *)
(* follow; its values are strings.                                         *)
(***************************************************************************)
FormattedValue == "@OData.Community.Display.V1.FormattedValue"
LookupLogicalName == "@Microsoft.Dynamics.CRM.lookuplogicalname"
Type == "@odata.type"
changedFieldPlaceholder == "%CHANGED_FIELD%"

Record(pairs) == [t |-> "record", v |-> pairs]
Pair(k, v) == [k |-> k, v |-> v]

\* record[key]
Read(record, key) ==
    IF \E i \in 1..Len(record.v) : record.v[i].k = key
        THEN Str(record.v[CHOOSE i \in 1..Len(record.v) : record.v[i].k = key].v)
        ELSE Undefined

\* Object.keys(record)
Keys(record) == [i \in 1..Len(record.v) |-> record.v[i].k]

\* !x
Falsy(x) == IsNullish(x) \/ (x.t = "string" /\ x.v = "")

StartsWith(s, prefix) ==
    Len(s) >= Len(prefix) /\ SubSeq(s, 1, Len(prefix)) = prefix

EndsWith(s, suffix) ==
    Len(s) >= Len(suffix) /\ SubSeq(s, Len(s) - Len(suffix) + 1, Len(s)) = suffix

Includes(s, part) ==
    \E i \in 1..(Len(s) - Len(part) + 1) : SubSeq(s, i, i + Len(part) - 1) = part

\* s.replace(part, ""): the first occurrence removed
RemoveFirst(s, part) ==
    IF ~Includes(s, part) THEN s
    ELSE LET i == CHOOSE j \in 1..(Len(s) - Len(part) + 1) :
                    /\ SubSeq(s, j, j + Len(part) - 1) = part
                    /\ \A h \in 1..(j - 1) : SubSeq(s, h, h + Len(part) - 1) # part
         IN  SubSeq(s, 1, i - 1) \o SubSeq(s, i + Len(part), Len(s))

\* /^_.*_value$/.test(attributeKey)
IsLookupKey(attributeKey) ==
    /\ Len(attributeKey) >= Len("__value")
    /\ StartsWith(attributeKey, "_")
    /\ EndsWith(attributeKey, "_value")

RECURSIVE Distinct(_)
\* new Set(keys): the first occurrence of every key, in order
Distinct(keys) ==
    IF keys = <<>> THEN <<>>
    ELSE LET front == Distinct(SubSeq(keys, 1, Len(keys) - 1))
             last == keys[Len(keys)]
         IN  IF \E i \in 1..Len(front) : front[i] = last THEN front
             ELSE Append(front, last)

parseAuditRecord(auditRecord) ==
    [ id |-> auditRecord.auditid,
      actionValue |-> auditRecord.action,
      recordId |-> auditRecord._objectid_value,
      recordLogicalName |-> auditRecord.objecttypecode,
      createdOn |-> DateObject(auditRecord.auditid, auditRecord.createdon) ]

isPropertyAnnotation(property) == Includes(property, "@")

parseChangedFieldLookupName(attributeKey) ==
    IF StartsWith(attributeKey, "_") /\ EndsWith(attributeKey, "_value")
        THEN SubSeq(attributeKey, 2, Len(attributeKey) - Len("_value"))
        ELSE attributeKey

parseChangeItemLookupValue(attributeKey, values) ==
    LET logicalName == Read(values, attributeKey \o LookupLogicalName)
    IN  IF Falsy(logicalName) \/ ~IsLookupKey(attributeKey) THEN Null
        ELSE [t |-> "object", logicalName |-> logicalName,
              id |-> Read(values, attributeKey)]

\* parseChangeItemTextValue preferring the annotation over the presence of
\* the raw value
parseChangeItemTextValueFormattedFirst(attributeKey, values, doRequireFormattedValue) ==
    LET formattedValueKey == attributeKey \o FormattedValue
    IN  IF ~Falsy(Read(values, formattedValueKey))
            THEN Read(values, formattedValueKey)
        ELSE IF Falsy(Read(values, attributeKey)) THEN Str("-")
        ELSE IF ~doRequireFormattedValue THEN Read(values, attributeKey)
        ELSE Str(changedFieldPlaceholder)

parseChangeItemTextValue(attributeKey, values, doRequireFormattedValue) ==
    LET formattedValueKey == attributeKey \o FormattedValue
    IN  IF Falsy(Read(values, attributeKey)) THEN Str("-")
        ELSE IF Falsy(Read(values, formattedValueKey))
            THEN IF ~doRequireFormattedValue
                     THEN Read(values, attributeKey)
                     ELSE Str(changedFieldPlaceholder)
        ELSE Read(values, formattedValueKey)

parseChangeItemValue(attributeKey, values) ==
    LET lookupValue == parseChangeItemLookupValue(attributeKey, values)
    IN  [ text |-> parseChangeItemTextValue(attributeKey, values,
                                            lookupValue.t # "null"),
          lookup |-> lookupValue ]

parseChangeItem(attributeKey, oldValues, newValues) ==
    [ changedFieldLogicalName |-> parseChangedFieldLookupName(attributeKey),
      oldValueRaw |-> parseChangeItemValue(attributeKey, oldValues),
      newValueRaw |-> parseChangeItemValue(attributeKey, newValues) ]

RECURSIVE parseChangeItems(_, _, _)
\* The for loop of parseChangeData over the changed attributes.
parseChangeItems(changedAttributes, oldValues, newValues) ==
    IF changedAttributes = <<>> THEN <<>>
    ELSE LET rest == parseChangeItems(Tail(changedAttributes), oldValues, newValues)
         IN  IF isPropertyAnnotation(Head(changedAttributes)) THEN rest
             ELSE <<parseChangeItem(Head(changedAttributes), oldValues, newValues)>>
                  \o rest

\* parseChangeData returning items when only one of the two maps is there
parseChangeDataEitherSide(oldValues, newValues) ==
    IF Falsy(oldValues) /\ Falsy(newValues) THEN Arr(<<>>)
    ELSE IF Falsy(oldValues) \/ Falsy(newValues) THEN Undefined
    ELSE Arr(parseChangeItems(Distinct(Keys(oldValues) \o Keys(newValues)),
                              oldValues, newValues))

parseChangeData(oldValues, newValues) ==
    IF Falsy(oldValues) \/ Falsy(newValues) THEN Undefined
    ELSE Arr(parseChangeItems(Distinct(Keys(oldValues) \o Keys(newValues)),
                              oldValues, newValues))

associateEntitiesAction == 33
disassociateEntitiesAction == 34
typeNamespace == "#Microsoft.Dynamics.CRM."

\* parseTargetRecordsItemValue with the sides swapped
parseTargetRecordsItemValueSwapped(id, type, targetAction, actualAction) ==
    IF targetAction = actualAction THEN [text |-> Str("-"), lookup |-> Null]
    ELSE [ text |-> Str(type),
           lookup |-> [t |-> "object", id |-> Str(id), logicalName |-> Str(type)] ]

parseTargetRecordsItemValue(id, type, targetAction, actualAction) ==
    IF targetAction # actualAction THEN [text |-> Str("-"), lookup |-> Null]
    ELSE [ text |-> Str(type),
           lookup |-> [t |-> "object", id |-> Str(id), logicalName |-> Str(type)] ]

\* The value of the first property whose name ends in "id" (for..in, break).
firstIdProperty(targetRecord) ==
    LET hits == { i \in 1..Len(targetRecord.v) : EndsWith(targetRecord.v[i].k, "id") }
    IN  IF hits = {} THEN Undefined
        ELSE Str(targetRecord.v[CHOOSE i \in hits : \A j \in hits : i <= j].v)

RECURSIVE parseTargetRecordItems(_, _)
\* The for loop of parseTargetRecords; thrown when a target record has no
\* @odata.type (fullyQualifiedType.replace on undefined is a TypeError).
parseTargetRecordItems(targetRecords, auditItemAction) ==
    IF targetRecords = <<>> THEN [thrown |-> FALSE, items |-> <<>>]
    ELSE
      LET targetRecord == Head(targetRecords)
          fullyQualifiedType == Read(targetRecord, Type)
      IN  IF IsNullish(fullyQualifiedType) THEN [thrown |-> TRUE, items |-> <<>>]
          ELSE
            LET type == RemoveFirst(fullyQualifiedType.v, typeNamespace)
                id == firstIdProperty(targetRecord)
                rest == parseTargetRecordItems(Tail(targetRecords), auditItemAction)
            IN  IF rest.thrown \/ type = "" \/ Falsy(id) THEN rest
                ELSE [ thrown |-> FALSE,
                       items |->
                         << [ changedEntityLogicalName |-> type,
                              changedEntityId |-> id.v,
                              oldValueRaw |->
                                  parseTargetRecordsItemValue(
                                      id.v, type, disassociateEntitiesAction,
                                      auditItemAction),
                              newValueRaw |->
                                  parseTargetRecordsItemValue(
                                      id.v, type, associateEntitiesAction,
                                      auditItemAction) ] >> \o rest.items ]

\* parseTargetRecords: undefined, or the target record changes, or a throw.
parseTargetRecords(detail) ==
    LET auditItemAction == detail.AuditRecord.action
    IN  IF \/ Falsy(detail.TargetRecords)
           \/ ~(auditItemAction = associateEntitiesAction
                \/ auditItemAction = disassociateEntitiesAction)
            THEN Undefined
        ELSE LET changeData ==
                     parseTargetRecordItems(detail.TargetRecords.v, auditItemAction)
             IN  IF changeData.thrown THEN [t |-> "TypeError"]
                 ELSE IF Len(changeData.items) = 0 THEN Undefined
                 ELSE Arr(changeData.items)

\* new AuditDetailItem(detail)
construct(detail) ==
    LET targetRecords == parseTargetRecords(detail)
    IN  IF targetRecords.t = "TypeError" THEN [kind |-> "TypeError"]
        ELSE [ kind |-> "ok",
               auditRecord |-> parseAuditRecord(detail.AuditRecord),
               changeData |-> parseChangeData(detail.OldValue, detail.NewValue),
               targetRecords |-> targetRecords ]


\* Inputs: an audit detail whose OldValue / NewValue are absent or hold one
\* attribute with any combination of raw value, formatted-value annotation
\* and lookup-logical-name annotation, and whose TargetRecords are absent or
\* hold at most MaxTargets records.
MaxTargets == 2
AuditActions == {1, associateEntitiesAction, disassociateEntitiesAction}
AttributeKeys == {"name", "_ownerid_value"}

RawValues == {"", "7"}
Optional(S) == {<<>>} \cup {<<x>> : x \in S}

ChangeValuesOf(attributeKey, raw, formatted, lookup) ==
    Record([i \in 1..Len(raw) |-> Pair(attributeKey, raw[i])]
           \o [i \in 1..Len(formatted) |->
                   Pair(attributeKey \o FormattedValue, formatted[i])]
           \o [i \in 1..Len(lookup) |->
                   Pair(attributeKey \o LookupLogicalName, lookup[i])])

ChangeValues ==
    {Undefined}
    \cup { ChangeValuesOf(k, raw, formatted, lookup) :
               k \in AttributeKeys, raw \in Optional(RawValues),
               formatted \in Optional({"Seven"}),
               lookup \in Optional({"systemuser"}) }

TargetRecordShapes ==
    { Record(<<Pair(Type, "#Microsoft.Dynamics.CRM.contact"),
               Pair("contactid", "c1")>>),
      Record(<<Pair("accountid", "a1"),
               Pair(Type, "#Microsoft.Dynamics.CRM.account")>>),
      Record(<<Pair(Type, "#Microsoft.Dynamics.CRM.contact"),
               Pair("fullname", "Ann")>>),
      Record(<<Pair(Type, "#Microsoft.Dynamics.CRM.contact"),
               Pair("parentcustomerid", ""), Pair("contactid", "c2")>>),
      Record(<<Pair("contactid", "c3")>>) }

TargetRecordLists ==
    {Undefined}
    \cup UNION { {Arr(l) : l \in [1..n -> TargetRecordShapes]} : n \in 0..MaxTargets }

WebApiAuditRecord(action) ==
    [ auditid |-> 1, action |-> action, createdon |-> 1,
      _objectid_value |-> "r1", objecttypecode |-> "account" ]

AuditInit ==
    /\ \E action \in AuditActions, old \in ChangeValues, new \in ChangeValues,
          targets \in TargetRecordLists :
         rawAuditDetail = [ t |-> "object",
                            AuditRecord |-> WebApiAuditRecord(action),
                            OldValue |-> old, NewValue |-> new,
                            TargetRecords |-> targets ]
    /\ auditDetailItem = Pending

\* new AuditDetailItem(auditDetailItem)
Construct ==
    /\ auditDetailItem = Pending
    /\ auditDetailItem' = construct(rawAuditDetail)
    /\ UNCHANGED rawAuditDetail

InitAudit ==
    /\ ParserIdle /\ MergeIdle /\ AuditInit /\ CacheIdle
    /\ BuilderIdle /\ HookIdle
    /\ ComparerIdle /\ ExtractIdle /\ ControllerIdle /\ EnrichIdle
NextAudit ==
    /\ Construct
    /\ UNCHANGED <<builderVars, hookVars,
                   parserVars, mergeVars, cacheVars, comparerVars, extractVars,
                   controllerVars, enrichVars>>
SpecAudit == InitAudit /\ [][NextAudit]_vars


(***************************************************************************)
(* Properties of the constructed AuditDetailItem                           *)
(***************************************************************************)
Constructed == auditDetailItem.kind \in {"ok", "TypeError"}
Built == auditDetailItem.kind = "ok"
ActionOf == rawAuditDetail.AuditRecord.action
Placeholder == [text |-> Str("-"), lookup |-> Null]
Present(values, key) == ~Falsy(Read(values, key))

\* C5: a constructed item never has both changeData and targetRecords
\* defined.
C5_ChangeDataXorTargetRecords ==
    Built => ~(auditDetailItem.changeData # Undefined
               /\ auditDetailItem.targetRecords # Undefined)

\* A target record that names a type and whose first "...id" property has a
\* value.
WellFormedTarget(targetRecord) ==
    /\ ~IsNullish(Read(targetRecord, Type))
    /\ RemoveFirst(Read(targetRecord, Type).v, typeNamespace) # ""
    /\ ~Falsy(firstIdProperty(targetRecord))

TargetReference(targetRecord) ==
    [ t |-> "object",
      id |-> firstIdProperty(targetRecord),
      logicalName |-> Str(RemoveFirst(Read(targetRecord, Type).v, typeNamespace)) ]

\* C6: every target record change carries the target reference on the side
\* of the actual action (33: new side, 34: old side) and the placeholder
\* {text "-", lookup null} on the other side; there is one change per
\* well-formed target, so an associate entry with one well-formed target
\* yields exactly one change.
C6_ReferenceOnActionSide ==
    (Built /\ auditDetailItem.targetRecords # Undefined) =>
        LET targets == SelectSeq(rawAuditDetail.TargetRecords.v, WellFormedTarget)
            changes == auditDetailItem.targetRecords.v
        IN  /\ ActionOf \in {associateEntitiesAction, disassociateEntitiesAction}
            /\ Len(changes) = Len(targets)
            /\ \A i \in 1..Len(changes) :
                 /\ ActionOf = associateEntitiesAction =>
                      /\ changes[i].newValueRaw.lookup = TargetReference(targets[i])
                      /\ changes[i].oldValueRaw = Placeholder
                 /\ ActionOf = disassociateEntitiesAction =>
                      /\ changes[i].oldValueRaw.lookup = TargetReference(targets[i])
                      /\ changes[i].newValueRaw = Placeholder

\* An associate entry with one well-formed target gave one change with the
\* reference on the new side.
C6_Witness ==
    /\ Built
    /\ ActionOf = associateEntitiesAction
    /\ rawAuditDetail.TargetRecords # Undefined
    /\ Len(rawAuditDetail.TargetRecords.v) = 1
    /\ WellFormedTarget(rawAuditDetail.TargetRecords.v[1])
    /\ auditDetailItem.targetRecords # Undefined
    /\ Len(auditDetailItem.targetRecords.v) = 1
    /\ auditDetailItem.targetRecords.v[1].newValueRaw.lookup.t = "object"
    /\ auditDetailItem.targetRecords.v[1].oldValueRaw = Placeholder

\* C7: when the old and the new value map are both undefined, the
\* constructed item has changeData undefined; and when moreover the action
\* is neither 33 nor 34, construction completes and targetRecords is
\* undefined too, whatever TargetRecords holds.
C7_NoMapsNoChangeData ==
    (Constructed /\ rawAuditDetail.OldValue = Undefined
                 /\ rawAuditDetail.NewValue = Undefined) =>
        /\ Built => auditDetailItem.changeData = Undefined
        /\ ActionOf \notin {associateEntitiesAction, disassociateEntitiesAction} =>
             Built /\ auditDetailItem.targetRecords = Undefined

\* An entry of action 1 without value maps but with target records was
\* constructed.
C7_Witness ==
    /\ Built
    /\ rawAuditDetail.OldValue = Undefined
    /\ rawAuditDetail.NewValue = Undefined
    /\ ActionOf = 1
    /\ rawAuditDetail.TargetRecords # Undefined
    /\ Len(rawAuditDetail.TargetRecords.v) > 0
    /\ auditDetailItem.changeData = Undefined
    /\ auditDetailItem.targetRecords = Undefined

\* The attribute key a change item was parsed from.
KeyOf(changeItem) ==
    CHOOSE k \in AttributeKeys :
        parseChangedFieldLookupName(k) = changeItem.changedFieldLogicalName

\* The two sides of a change item with the value map each was parsed from.
Sides(changeItem) ==
    { [value |-> changeItem.oldValueRaw, values |-> rawAuditDetail.OldValue],
      [value |-> changeItem.newValueRaw, values |-> rawAuditDetail.NewValue] }

ChangeItems ==
    IF Built /\ auditDetailItem.changeData # Undefined
        THEN {auditDetailItem.changeData.v[i] :
                  i \in 1..Len(auditDetailItem.changeData.v)}
        ELSE {}

\* C8 as stated: on each side the text is the formatted value when the
\* annotation is present, otherwise the raw value when present, otherwise
\* the placeholder.
C8_FormattedThenRawThenPlaceholder ==
    \A changeItem \in ChangeItems : \A side \in Sides(changeItem) :
        LET key == KeyOf(changeItem)
        IN  side.value.text =
                IF Present(side.values, key \o FormattedValue)
                    THEN Read(side.values, key \o FormattedValue)
                ELSE IF Present(side.values, key)
                    THEN Read(side.values, key)
                ELSE Str("-")

\* C8: on each side the text is "-" when the raw value is absent or empty;
\* otherwise the formatted value when the annotation is present; otherwise
\* the raw value, unless the side carries a lookup reference, in which case
\* it is the changed-field placeholder.
C8_RawGatesFormatted ==
    \A changeItem \in ChangeItems : \A side \in Sides(changeItem) :
        LET key == KeyOf(changeItem)
        IN  side.value.text =
                IF ~Present(side.values, key) THEN Str("-")
                ELSE IF Present(side.values, key \o FormattedValue)
                    THEN Read(side.values, key \o FormattedValue)
                ELSE IF side.value.lookup = Null
                    THEN Read(side.values, key)
                ELSE Str(changedFieldPlaceholder)

\* A side with the formatted annotation but no raw value got the text "-".
C8_Witness ==
    \E changeItem \in ChangeItems : \E side \in Sides(changeItem) :
        /\ ~Present(side.values, KeyOf(changeItem))
        /\ Present(side.values, KeyOf(changeItem) \o FormattedValue)
        /\ side.value.text = Str("-")


(***************************************************************************)
(* EntityMetadataCollection (metadata cache kept in local storage)         *)
(*                                                                         *)
(* The stored item is null (no item), the empty string, or a JSON text.    *)
(* In memory an entity created by a set operation holds displayName and    *)
(* primaryNameAttribute as properties valued undefined; JSON.stringify     *)
(* drops such properties, so a loaded entity lacks them.                   *)
(***************************************************************************)
version == 1

EmptyObject == Obj([k \in {} |-> Undefined])

\* o[k] = v on an object
SetProp(o, k, v) == Obj((k :> v) @@ o.v)

RECURSIVE Stringify(_)
\* The value a JSON.stringify / JSON.parse round trip gives back: properties
\* valued undefined are left out.
Stringify(value) ==
    IF value.t = "object"
        THEN Obj([k \in {key \in DOMAIN value.v : value.v[key] # Undefined} |->
                      Stringify(value.v[k])])
        ELSE value

ControlAttributeDefinition(logicalName, displayName) ==
    Obj([logicalName |-> Str(logicalName), displayName |-> Str(displayName)])

\* Outcome of a set operation: the map afterwards, and whether it threw.
Done(map) == [threw |-> FALSE, map |-> map]
Thrown(map) == [threw |-> TRUE, map |-> map]
TypeError == [t |-> "TypeError"]

\* if (!this._entityMetadataMap[entityLogicalName]) { ... = {...} }
EnsureEntity(map, entityLogicalName) ==
    IF Falsy(Get(map, entityLogicalName))
        THEN SetProp(map, entityLogicalName,
                     Obj([ displayName |-> Undefined,
                           primaryNameAttribute |-> Undefined,
                           attributes |-> EmptyObject ]))
        ELSE map

setAttribute(map, entityLogicalName, attribute) ==
    IF IsNullish(map) THEN Thrown(map)
    ELSE LET ensured == EnsureEntity(map, entityLogicalName)
             entity == Get(ensured, entityLogicalName)
             attributes == Get(entity, "attributes")
         IN  IF IsNullish(attributes) THEN Thrown(map)
             ELSE Done(SetProp(ensured, entityLogicalName,
                      SetProp(entity, "attributes",
                          SetProp(attributes, Get(attribute, "logicalName").v,
                                  attribute))))

getAttribute(map, entityLogicalName, attributeLogicalName) ==
    IF IsNullish(map) THEN TypeError
    ELSE IF IsNullish(Get(map, entityLogicalName)) THEN Undefined
    ELSE IF IsNullish(Get(Get(map, entityLogicalName), "attributes")) THEN Undefined
    ELSE Get(Get(Get(map, entityLogicalName), "attributes"), attributeLogicalName)

\* setEntityDisplayName creating the entity anew on every call
setEntityDisplayNameRecreating(map, entityLogicalName, entityDisplayName) ==
    IF IsNullish(map) THEN Thrown(map)
    ELSE LET ensured == EnsureEntity(EmptyObject, entityLogicalName)
         IN  Done(SetProp(map, entityLogicalName,
                      SetProp(Get(ensured, entityLogicalName), "displayName",
                              Str(entityDisplayName))))

setEntityDisplayName(map, entityLogicalName, entityDisplayName) ==
    IF IsNullish(map) THEN Thrown(map)
    ELSE LET ensured == EnsureEntity(map, entityLogicalName)
         IN  Done(SetProp(ensured, entityLogicalName,
                      SetProp(Get(ensured, entityLogicalName), "displayName",
                              Str(entityDisplayName))))

getEntityDisplayName(map, entityLogicalName) ==
    IF IsNullish(map) THEN TypeError
    ELSE IF IsNullish(Get(map, entityLogicalName)) THEN Undefined
    ELSE Get(Get(map, entityLogicalName), "displayName")

setEntityPrimaryNameAttribute(map, entityLogicalName, entityPrimaryNameAttribute) ==
    IF IsNullish(map) THEN Thrown(map)
    ELSE LET ensured == EnsureEntity(map, entityLogicalName)
         IN  Done(SetProp(ensured, entityLogicalName,
                      SetProp(Get(ensured, entityLogicalName),
                              "primaryNameAttribute",
                              Str(entityPrimaryNameAttribute))))

getEntityPrimaryNameAttribute(map, entityLogicalName) ==
    IF IsNullish(map) THEN TypeError
    ELSE IF IsNullish(Get(map, entityLogicalName)) THEN Undefined
    ELSE Get(Get(map, entityLogicalName), "primaryNameAttribute")

\* The text saveData hands to localStorage.setItem for a store of the given
\* version.
SavedText(storeVersion, map) ==
    JsonText(Stringify(Obj([ version |-> Num(storeVersion),
                             entityMetadataMap |-> map ])))

\* tryLoadMetadata taking the stored map whatever its version
tryLoadMetadataAnyVersion(cachedDataRaw) ==
    IF cachedDataRaw = Null \/ cachedDataRaw = Str("") THEN EmptyObject
    ELSE IF ~cachedDataRaw.syntaxOk THEN EmptyObject
    ELSE IF ~IsNullish(cachedDataRaw.value)
        THEN Get(cachedDataRaw.value, "entityMetadataMap")
    ELSE EmptyObject

\* The constructor: _entityMetadataMap = {} and then tryLoadMetadata(); the
\* result is the map the new collection holds.
tryLoadMetadata(cachedDataRaw) ==
    IF cachedDataRaw = Null \/ cachedDataRaw = Str("") THEN EmptyObject
    ELSE IF ~cachedDataRaw.syntaxOk THEN EmptyObject
    ELSE IF /\ ~IsNullish(cachedDataRaw.value)
            /\ Get(cachedDataRaw.value, "version") = Num(version)
        THEN Get(cachedDataRaw.value, "entityMetadataMap")
    ELSE EmptyObject

\* Universe of the cache operations' arguments.
MaxCacheOps == 4
Entities == {"account", "contact"}
AttributeNames == {"name", "ownerid"}
AttributeDisplayNames == {"Name", "Owner"}
EntityDisplayNames == {"Account"}
PrimaryNameAttributes == {"fullname"}

\* Maps a release of another version may have saved.
ForeignMaps ==
    { setAttribute(EmptyObject, "account",
                   ControlAttributeDefinition("name", "Name")).map,
      setEntityPrimaryNameAttribute(
          setEntityDisplayName(
              setAttribute(EmptyObject, "contact",
                           ControlAttributeDefinition("ownerid", "Owner")).map,
              "contact", "Account").map,
          "contact", "fullname").map }

\* What the storage key may hold before this release first saves: nothing,
\* an empty or unparseable text, or a store saved under another version.
InitialStorage ==
    {Null, Str(""), MalformedJson}
    \cup {SavedText(version + 1, map) : map \in ForeignMaps}

Called(kind, entityLogicalName, key, value, threw) ==
    [ kind |-> kind, entity |-> entityLogicalName, key |-> key,
      value |-> value, threw |-> threw ]

CacheInit ==
    /\ localStorage \in InitialStorage
    /\ _entityMetadataMap = tryLoadMetadata(localStorage)
    /\ cacheOps = 0
    /\ lastCall = Called("constructor", "", "", Undefined, FALSE)

\* new EntityMetadataCollection(key) over the current storage (a reload of
\* the control)
NewEntityMetadataCollection ==
    /\ cacheOps < MaxCacheOps
    /\ _entityMetadataMap' = tryLoadMetadata(localStorage)
    /\ cacheOps' = cacheOps + 1
    /\ lastCall' = Called("constructor", "", "", Undefined, FALSE)
    /\ UNCHANGED localStorage

SetAttribute ==
    /\ cacheOps < MaxCacheOps
    /\ \E e \in Entities, k \in AttributeNames, d \in AttributeDisplayNames :
         LET attribute == ControlAttributeDefinition(k, d)
             outcome == setAttribute(_entityMetadataMap, e, attribute)
         IN  /\ _entityMetadataMap' = outcome.map
             /\ lastCall' = Called("setAttribute", e, k, attribute, outcome.threw)
    /\ cacheOps' = cacheOps + 1
    /\ UNCHANGED localStorage

SetEntityDisplayName ==
    /\ cacheOps < MaxCacheOps
    /\ \E e \in Entities, d \in EntityDisplayNames :
         LET outcome == setEntityDisplayName(_entityMetadataMap, e, d)
         IN  /\ _entityMetadataMap' = outcome.map
             /\ lastCall' = Called("setEntityDisplayName", e, "displayName",
                                   Str(d), outcome.threw)
    /\ cacheOps' = cacheOps + 1
    /\ UNCHANGED localStorage

SetEntityPrimaryNameAttribute ==
    /\ cacheOps < MaxCacheOps
    /\ \E e \in Entities, a \in PrimaryNameAttributes :
         LET outcome == setEntityPrimaryNameAttribute(_entityMetadataMap, e, a)
         IN  /\ _entityMetadataMap' = outcome.map
             /\ lastCall' = Called("setEntityPrimaryNameAttribute", e,
                                   "primaryNameAttribute", Str(a), outcome.threw)
    /\ cacheOps' = cacheOps + 1
    /\ UNCHANGED localStorage

\* saveData: localStorage.setItem either stores the text or throws (quota,
\* storage disabled); the throw is caught and logged.
SaveData ==
    /\ cacheOps < MaxCacheOps
    /\ \E stored \in BOOLEAN :
         /\ localStorage' = IF stored THEN SavedText(version, _entityMetadataMap)
                            ELSE localStorage
         /\ lastCall' = Called("saveData", "", "", Bool(stored), FALSE)
    /\ cacheOps' = cacheOps + 1
    /\ UNCHANGED _entityMetadataMap

InitCache ==
    /\ ParserIdle /\ MergeIdle /\ AuditIdle /\ CacheInit
    /\ BuilderIdle /\ HookIdle
    /\ ComparerIdle /\ ExtractIdle /\ ControllerIdle /\ EnrichIdle
NextCache ==
    /\ \/ NewEntityMetadataCollection
       \/ SetAttribute
       \/ SetEntityDisplayName
       \/ SetEntityPrimaryNameAttribute
       \/ SaveData
    /\ UNCHANGED <<builderVars, hookVars,
                   parserVars, mergeVars, auditVars, comparerVars, extractVars,
                   controllerVars, enrichVars>>
SpecCache == InitCache /\ [][NextCache]_vars

\* Whatever the storage key may hold: what InitialStorage lists, a JSON text
\* of another shape (null, a number), a store of this version without an
\* entityMetadataMap, and one whose map holds an entity without attributes.
AnyStorage ==
    InitialStorage
    \cup { JsonText(Null), JsonText(Num(7)),
           JsonText(Obj([version |-> Num(version)])),
           JsonText(Obj([ version |-> Num(version),
                          entityMetadataMap |->
                              Obj([account |-> EmptyObject]) ])) }

CacheInitAnyStorage ==
    /\ localStorage \in AnyStorage
    /\ _entityMetadataMap = tryLoadMetadata(localStorage)
    /\ cacheOps = 0
    /\ lastCall = Called("constructor", "", "", Undefined, FALSE)

InitCacheAnyStorage ==
    /\ ParserIdle /\ MergeIdle /\ AuditIdle /\ CacheInitAnyStorage
    /\ BuilderIdle /\ HookIdle
    /\ ComparerIdle /\ ExtractIdle /\ ControllerIdle /\ EnrichIdle
SpecCacheAnyStorage == InitCacheAnyStorage /\ [][NextCache]_vars


(***************************************************************************)
(* Properties of the metadata cache                                        *)
(***************************************************************************)
SetKinds == {"setAttribute", "setEntityDisplayName",
             "setEntityPrimaryNameAttribute"}

\* C9: a setAttribute(e, a) completes and getAttribute(e, a.logicalName)
\* then returns a; and no set operation changes what getAttribute returns
\* for any (entity, key) pair other than the one a setAttribute writes.
C9_SetAttributeRoundTrip ==
    [][ (cacheOps' = cacheOps + 1 /\ lastCall'.kind \in SetKinds) =>
          /\ lastCall'.kind = "setAttribute" =>
               /\ ~lastCall'.threw
               /\ getAttribute(_entityMetadataMap', lastCall'.entity,
                               lastCall'.key) = lastCall'.value
          /\ \A e \in Entities, k \in AttributeNames :
               \/ /\ lastCall'.kind = "setAttribute"
                  /\ e = lastCall'.entity
                  /\ k = lastCall'.key
               \/ getAttribute(_entityMetadataMap', e, k)
                      = getAttribute(_entityMetadataMap, e, k) ]_vars

\* In a cache that started empty, the attribute set on account is still
\* returned after the display name of account was set.
C9_Witness ==
    /\ localStorage = Null
    /\ lastCall.kind = "setEntityDisplayName"
    /\ lastCall.entity = "account"
    /\ getEntityDisplayName(_entityMetadataMap, "account") = Str("Account")
    /\ getAttribute(_entityMetadataMap, "account", "name")
           = ControlAttributeDefinition("name", "Name")

\* The stored text is a JSON text holding an object.
StoredObject ==
    /\ localStorage # Null
    /\ localStorage # Str("")
    /\ localStorage.syntaxOk
    /\ localStorage.value.t = "object"

\* What the stored blob holds for an attribute, a display name and a primary
\* name attribute.
HeldEntity(e) == Get(Get(localStorage.value, "entityMetadataMap"), e)
HeldAttribute(e, k) == Get(Get(HeldEntity(e), "attributes"), k)
HeldDisplayName(e) == Get(HeldEntity(e), "displayName")
HeldPrimaryNameAttribute(e) == Get(HeldEntity(e), "primaryNameAttribute")

\* C10: a cache constructed over a blob of another version holds nothing
\* (every get returns undefined), and construction does not fail; a cache
\* constructed over a blob of its own version returns from every get what
\* the blob holds; and the blob saveData stores holds what every get
\* returned when it was saved.
C10_VersionGatesLoad ==
    /\ (lastCall.kind = "constructor" /\ StoredObject) =>
         /\ ~lastCall.threw
         /\ Get(localStorage.value, "version") # Num(version) =>
              \A e \in Entities :
                /\ getEntityDisplayName(_entityMetadataMap, e) = Undefined
                /\ getEntityPrimaryNameAttribute(_entityMetadataMap, e) = Undefined
                /\ \A k \in AttributeNames :
                     getAttribute(_entityMetadataMap, e, k) = Undefined
         /\ Get(localStorage.value, "version") = Num(version) =>
              \A e \in Entities :
                /\ getEntityDisplayName(_entityMetadataMap, e) = HeldDisplayName(e)
                /\ getEntityPrimaryNameAttribute(_entityMetadataMap, e)
                       = HeldPrimaryNameAttribute(e)
                /\ \A k \in AttributeNames :
                     getAttribute(_entityMetadataMap, e, k) = HeldAttribute(e, k)
    /\ (lastCall.kind = "saveData" /\ lastCall.value = Bool(TRUE)) =>
         /\ StoredObject
         /\ Get(localStorage.value, "version") = Num(version)
         /\ \A e \in Entities :
              /\ HeldDisplayName(e) = getEntityDisplayName(_entityMetadataMap, e)
              /\ HeldPrimaryNameAttribute(e)
                     = getEntityPrimaryNameAttribute(_entityMetadataMap, e)
              /\ \A k \in AttributeNames :
                   HeldAttribute(e, k) = getAttribute(_entityMetadataMap, e, k)

\* A cache that held an attribute was constructed anew over a blob of
\* another version that holds this attribute, and no longer returns it.
C10_Witness ==
    /\ cacheOps >= 2
    /\ lastCall.kind = "constructor"
    /\ StoredObject
    /\ Get(localStorage.value, "version") # Num(version)
    /\ HeldAttribute("account", "name") # Undefined
    /\ getAttribute(_entityMetadataMap, "account", "name") = Undefined

\* C30: whatever the storage key holds, constructing the Metadata Cache
\* succeeds, and afterwards no get operation and no set operation throws.
C30_NoOperationThrows ==
    /\ ~lastCall.threw
    /\ \A e \in Entities :
         /\ getEntityDisplayName(_entityMetadataMap, e) # TypeError
         /\ getEntityPrimaryNameAttribute(_entityMetadataMap, e) # TypeError
         /\ \A k \in AttributeNames :
              getAttribute(_entityMetadataMap, e, k) # TypeError


(***************************************************************************)
(* AuditDetailItem.comparer on its own                                     *)
(***************************************************************************)
\* Inputs: each operand is undefined or an item; distinct items may carry
\* the same instant, and an item compared with itself has one createdOn.
CompareIds == 1..3
CompareOperands ==
    {Undefined} \cup {MergeItem(id, time) : id \in CompareIds, time \in Times}

ComparerInit ==
    /\ \E a \in CompareOperands, b \in CompareOperands :
         /\ (a # Undefined /\ b # Undefined
                /\ a.auditRecord.id = b.auditRecord.id) => a = b
         /\ compareArgs = <<a, b>>
    /\ compareResult = Pending

\* AuditDetailItem.comparer(a, b)
Compare ==
    /\ compareResult = Pending
    /\ compareResult' = [kind |-> "ok",
                         value |-> comparer(compareArgs[1], compareArgs[2])]
    /\ UNCHANGED compareArgs

InitComparer ==
    /\ ParserIdle /\ MergeIdle /\ AuditIdle /\ CacheIdle
    /\ BuilderIdle /\ HookIdle
    /\ ComparerInit /\ ExtractIdle /\ ControllerIdle /\ EnrichIdle
NextComparer ==
    /\ Compare
    /\ UNCHANGED <<builderVars, hookVars,
                   parserVars, mergeVars, auditVars, cacheVars, extractVars,
                   controllerVars, enrichVars>>
SpecComparer == InitComparer /\ [][NextComparer]_vars

Compared == compareResult.kind = "ok"
InstantOf(item) == item.auditRecord.createdOn.time

\* C20: comparer(a, b) is 1 when a is later, -1 when b is later and 0 when
\* the instants are equal, so that comparer(a, b) = -comparer(b, a) for
\* defined items; an undefined operand sorts last.
C20_ComparerOrdersByInstant ==
    Compared =>
        LET a == compareArgs[1]
            b == compareArgs[2]
        IN  /\ (a = Undefined /\ b = Undefined) => compareResult.value = 0
            /\ (a # Undefined /\ b = Undefined) => compareResult.value = 1
            /\ (a = Undefined /\ b # Undefined) => compareResult.value = -1
            /\ (a # Undefined /\ b # Undefined) =>
                 /\ InstantOf(a) > InstantOf(b) => compareResult.value = 1
                 /\ InstantOf(a) < InstantOf(b) => compareResult.value = -1
                 /\ InstantOf(a) = InstantOf(b) => compareResult.value = 0
                 /\ compareResult.value = 0 - comparer(b, a)


(***************************************************************************)
(* extractEntityReferencesFromEntity                                       *)
(*                                                                         *)
(* A payload object is an ordered list of key/value pairs (the order       *)
(* for..in follows); an array is seen by for..in as the pairs of its       *)
(* indices and items.                                                      *)
(***************************************************************************)
Entity(pairs) == [t |-> "entity", v |-> pairs]

HexDigits ==
    {"0", "1", "2", "3", "4", "5", "6", "7", "8", "9",
     "a", "b", "c", "d", "e", "f", "A", "B", "C", "D", "E", "F"}

\* isGuid without the i flag
isGuidCaseSensitive(value) ==
    /\ Len(value) = 36
    /\ \A i \in 1..36 :
         IF i \in {9, 14, 19, 24}
             THEN SubSeq(value, i, i) = "-"
             ELSE SubSeq(value, i, i) \in
                      {"0", "1", "2", "3", "4", "5", "6", "7", "8", "9",
                       "a", "b", "c", "d", "e", "f"}

\* /^[0-9a-f]{8}-[0-9a-f]{4}-[0-9a-f]{4}-[0-9a-f]{4}-[0-9a-f]{12}$/i
isGuid(value) ==
    /\ Len(value) = 36
    /\ \A i \in 1..36 :
         IF i \in {9, 14, 19, 24}
             THEN SubSeq(value, i, i) = "-"
             ELSE SubSeq(value, i, i) \in HexDigits

IndexKeys == <<"0", "1", "2", "3">>

\* The enumerable properties of an object or an array, in for..in order.
PropertiesOf(obj) ==
    IF obj.t = "array"
        THEN [i \in 1..Len(obj.v) |-> Pair(IndexKeys[i], obj.v[i])]
        ELSE obj.v

RECURSIVE processObject(_)
RECURSIVE processProperties(_)
RECURSIVE processItems(_)

\* value.forEach((item) => processObject(item, entityReferences))
processItems(items) ==
    IF items = <<>> THEN <<>>
    ELSE processObject(Head(items)) \o processItems(Tail(items))

\* The for..in loop of processObject: the references it pushes, in order.
processProperties(properties) ==
    IF properties = <<>> THEN <<>>
    ELSE LET key == Head(properties).k
             value == Head(properties).v
             found ==
                 IF EndsWith(key, "id") /\ value.t = "string" /\ isGuid(value.v)
                     THEN << [ id |-> value.v,
                               logicalName |-> SubSeq(key, 1, Len(key) - 2) ] >>
                 ELSE IF value.t = "array" THEN processItems(value.v)
                 ELSE IF value.t = "entity" THEN processObject(value)
                 ELSE <<>>
         IN  found \o processProperties(Tail(properties))

processObject(obj) ==
    IF obj.t \notin {"entity", "array"} THEN <<>>
    ELSE processProperties(PropertiesOf(obj))

extractEntityReferencesFromEntity(entity) ==
    IF IsNullish(entity) THEN <<>> ELSE processObject(entity)

\* Inputs: payloads nested up to MaxNesting levels.  Every level is an object
\* with a leaf property and a second property that holds the next level,
\* directly, in an array or in an array of arrays (the innermost level holds
\* a leaf there).
MaxNesting == 2
LowerGuid == "0a1b2c3d-4e5f-4a6b-8c7d-9e0f1a2b3c4d"
UpperGuid == "0A1B2C3D-4E5F-4A6B-8C7D-9E0F1A2B3C4D"
PayloadLeaves == {Str(LowerGuid), Str(UpperGuid), Str("0a1b2c3d"), Num(1)}
LeafKeys == {"contactid", "name"}
NestKeys == {"accountid", "contact_customer_accounts"}
Wrappings == {"object", "array", "arrayOfArrays"}

Wrapped(wrapping, value) ==
    IF wrapping = "object" THEN value
    ELSE IF wrapping = "array" THEN Arr(<<Null, value>>)
    ELSE Arr(<<Arr(<<value>>)>>)

RECURSIVE BuildPayload(_, _, _, _, _, _, _)
BuildPayload(level, depth, leafKey, leaf, nestKey, wrapping, innermost) ==
    Entity(<< Pair(leafKey[level], leaf[level]),
              Pair(nestKey[level],
                   IF level = depth THEN innermost
                   ELSE Wrapped(wrapping[level],
                                BuildPayload(level + 1, depth, leafKey, leaf,
                                             nestKey, wrapping, innermost))) >>)

ExtractInit ==
    /\ \/ payload \in {Undefined, Null, Entity(<<>>)}
       \/ \E depth \in 1..MaxNesting :
            \E leafKey \in [1..depth -> LeafKeys],
               leaf \in [1..depth -> PayloadLeaves],
               nestKey \in [1..depth -> NestKeys],
               wrapping \in [1..depth -> Wrappings],
               innermost \in PayloadLeaves :
              payload = BuildPayload(1, depth, leafKey, leaf, nestKey,
                                     wrapping, innermost)
    /\ entityReferences = Pending

\* extractEntityReferencesFromEntity(entityResponse)
Extract ==
    /\ entityReferences = Pending
    /\ entityReferences' =
           [kind |-> "ok", value |-> extractEntityReferencesFromEntity(payload)]
    /\ UNCHANGED payload

InitExtract ==
    /\ ParserIdle /\ MergeIdle /\ AuditIdle /\ CacheIdle
    /\ BuilderIdle /\ HookIdle
    /\ ComparerIdle /\ ExtractInit /\ ControllerIdle /\ EnrichIdle
NextExtract ==
    /\ Extract
    /\ UNCHANGED <<builderVars, hookVars,
                   parserVars, mergeVars, auditVars, cacheVars, comparerVars,
                   controllerVars, enrichVars>>
SpecExtract == InitExtract /\ [][NextExtract]_vars


(***************************************************************************)
(* Properties of extractEntityReferencesFromEntity                         *)
(***************************************************************************)
Extracted == entityReferences.kind = "ok"

RECURSIVE PairsWithin(_)
RECURSIVE PairsOfObject(_)
RECURSIVE PairsOfItems(_)
\* Every (key, value) pair of every object at any depth of a value.
PairsWithin(value) ==
    IF value.t = "entity" THEN PairsOfObject(value.v)
    ELSE IF value.t = "array" THEN PairsOfItems(value.v)
    ELSE <<>>

PairsOfObject(pairs) ==
    IF pairs = <<>> THEN <<>>
    ELSE <<Head(pairs)>> \o PairsWithin(Head(pairs).v) \o PairsOfObject(Tail(pairs))

PairsOfItems(items) ==
    IF items = <<>> THEN <<>>
    ELSE PairsWithin(Head(items)) \o PairsOfItems(Tail(items))

\* The pairs the claim speaks of: key ending in "id", GUID-shaped string.
IsReferencePair(pair) ==
    /\ EndsWith(pair.k, "id")
    /\ pair.v \in {Str(LowerGuid), Str(UpperGuid)}

ReferencePairs ==
    IF IsNullish(payload) THEN <<>>
    ELSE SelectSeq(PairsWithin(payload), IsReferencePair)

\* C18: the result holds, for every pair at any depth whose key ends in
\* "id" and whose value is a GUID-shaped string, exactly one reference with
\* id = the value and logicalName = the key without "id", and nothing else;
\* it is empty for an empty or missing payload.
C18_OneReferencePerIdPair ==
    Extracted =>
        /\ Len(entityReferences.value) = Len(ReferencePairs)
        /\ \A i \in 1..Len(ReferencePairs) :
             /\ entityReferences.value[i].id = ReferencePairs[i].v.v
             /\ entityReferences.value[i].logicalName \o "id" = ReferencePairs[i].k
        /\ payload \in {Undefined, Null, Entity(<<>>)} =>
             entityReferences.value = <<>>

\* Two references were found, one of them below an array, while a GUID under
\* a key not ending in "id" gave none.
C18_Witness ==
    /\ Extracted
    /\ Len(entityReferences.value) = 2
    /\ payload.v[2].v.t = "array"
    /\ payload.v[1] = Pair("name", Str(UpperGuid))
    /\ entityReferences.value[2].id = UpperGuid

\* C27: the list of entity references for which audit history is fetched
\* holds each (id, logicalName) pair at most once, also when the record
\* occurs at several places of the payload.
C27_NoReferenceTwice ==
    Extracted =>
        \A i, j \in 1..Len(entityReferences.value) :
            entityReferences.value[i] = entityReferences.value[j] => i = j


(***************************************************************************)
(* DataverseController.getExpandedAuditRecords                             *)
(*                                                                         *)
(* The method runs up to its first await in one step, and then one step    *)
(* per settled promise.  The enrichment it ends with is modelled on its    *)
(* own (SpecEnrich); here it is seen by the fetch calls it may make.       *)
(***************************************************************************)
MsgRecordAndRelated == "Error retrieving the record and associated records"
MsgAuditData == "Error retrieving audit data"
MsgEnrichment == "enrichRowData failed"

ControllerInit ==
    /\ ParserInit
    /\ controllerPc = "start"
    /\ collaboratorCalls = <<>>
    /\ controllerResult = Pending

\* getExpandedAuditRecords up to its first await: parse(controlConfig), then
\* the call of fetchRecordAndRelatedRecords.
GetExpandedAuditRecords ==
    /\ controllerPc = "start"
    /\ LET r == parse(configJson)
       IN  /\ parseResult' = [kind |-> r.kind, message |-> r.message,
                              value |-> r.value]
           /\ _includesManyToMany' = Bool(r.flag)
           /\ IF r.kind = "ok"
                  THEN /\ collaboratorCalls' =
                              Append(collaboratorCalls, "fetchRecordAndRelatedRecords")
                       /\ controllerPc' = "awaitRecordAndRelated"
                       /\ UNCHANGED controllerResult
                  ELSE /\ controllerResult' = [kind |-> r.kind, message |-> r.message]
                       /\ controllerPc' = "failed"
                       /\ UNCHANGED collaboratorCalls
    /\ UNCHANGED configJson

\* fetchRecordAndRelatedRecords settles: on success the references are
\* extracted and fetchAuditData is called.
RecordAndRelatedSettled ==
    /\ controllerPc = "awaitRecordAndRelated"
    /\ \E fulfilled \in BOOLEAN :
         IF fulfilled
             THEN /\ collaboratorCalls' = Append(collaboratorCalls, "fetchAuditData")
                  /\ controllerPc' = "awaitAuditData"
                  /\ UNCHANGED controllerResult
             ELSE /\ controllerResult' = [kind |-> "ControlOperationalError",
                                          message |-> <<MsgRecordAndRelated>>]
                  /\ controllerPc' = "failed"
                  /\ UNCHANGED collaboratorCalls
    /\ UNCHANGED parserVars

\* fetchAuditData settles: on success the AuditTableData is built and
\* enrichRowData starts, which may call fetchEntityMetadata.
AuditDataSettled ==
    /\ controllerPc = "awaitAuditData"
    /\ \E fulfilled \in BOOLEAN, doFetchMetadata \in BOOLEAN :
         IF fulfilled
             THEN /\ collaboratorCalls' =
                         IF doFetchMetadata
                             THEN Append(collaboratorCalls, "fetchEntityMetadata")
                             ELSE collaboratorCalls
                  /\ controllerPc' = "awaitMetadata"
                  /\ UNCHANGED controllerResult
             ELSE /\ ~doFetchMetadata
                  /\ controllerResult' = [kind |-> "ControlOperationalError",
                                          message |-> <<MsgAuditData>>]
                  /\ controllerPc' = "failed"
                  /\ UNCHANGED collaboratorCalls
    /\ UNCHANGED parserVars

\* The metadata requests settle: on success enrichRowData goes on and may
\* call fetchMultipleEntities.
MetadataSettled ==
    /\ controllerPc = "awaitMetadata"
    /\ \E fulfilled \in BOOLEAN, doFetchRecords \in BOOLEAN :
         IF fulfilled
             THEN /\ collaboratorCalls' =
                         IF doFetchRecords
                             THEN Append(collaboratorCalls, "fetchMultipleEntities")
                             ELSE collaboratorCalls
                  /\ controllerPc' = "awaitPrimaryNames"
                  /\ UNCHANGED controllerResult
             ELSE /\ ~doFetchRecords
                  /\ controllerResult' = [kind |-> "ControlOperationalError",
                                          message |-> <<MsgEnrichment>>]
                  /\ controllerPc' = "failed"
                  /\ UNCHANGED collaboratorCalls
    /\ UNCHANGED parserVars

\* The record requests settle: enrichRowData ends and the AuditTableData is
\* returned, or it fails.
PrimaryNamesSettled ==
    /\ controllerPc = "awaitPrimaryNames"
    /\ \E fulfilled \in BOOLEAN :
         IF fulfilled
             THEN /\ controllerResult' = [kind |-> "ok", message |-> <<>>]
                  /\ controllerPc' = "done"
             ELSE /\ controllerResult' = [kind |-> "ControlOperationalError",
                                          message |-> <<MsgEnrichment>>]
                  /\ controllerPc' = "failed"
    /\ UNCHANGED <<parserVars, collaboratorCalls>>

InitController ==
    /\ ControllerInit /\ MergeIdle /\ AuditIdle /\ CacheIdle
    /\ BuilderIdle /\ HookIdle
    /\ ComparerIdle /\ ExtractIdle /\ EnrichIdle
NextController ==
    /\ \/ GetExpandedAuditRecords
       \/ RecordAndRelatedSettled
       \/ AuditDataSettled
       \/ MetadataSettled
       \/ PrimaryNamesSettled
    /\ UNCHANGED <<builderVars, hookVars,
                   mergeVars, auditVars, cacheVars, comparerVars, extractVars,
                   enrichVars>>
SpecController == InitController /\ [][NextController]_vars

\* The descriptor is invalid: bad JSON, a missing or ill-typed field, depth
\* exceeded, or N:N together with nesting.
InvalidDescriptor ==
    \/ ~WellFormedConfig
    \/ NestingDepth(RootExpand) > _maximumExpandDepth
    \/ (HasManyToMany(RootExpand) /\ HasNestedExpand(RootExpand))

ConfigurationError ==
    /\ controllerResult.kind = "ControlOperationalError"
    /\ Len(controllerResult.message) = 2
    /\ controllerResult.message[1] = _baseErrorMessage

\* C17: with an invalid descriptor getExpandedAuditRecords fails with the
\* configuration error, and no fetch collaborator has been called.
C17_InvalidConfigFailsBeforeFetch ==
    (controllerPc # "start" /\ InvalidDescriptor) =>
        /\ controllerPc = "failed"
        /\ ConfigurationError
        /\ collaboratorCalls = <<>>

(***************************************************************************)
(* useAuditRecords and the refresh control of ExpandedAuditView            *)
(*                                                                         *)
(* isLoading, error and tableData are React state: a setter stores the     *)
(* new value, and the component sees it at its next render.  A callback    *)
(* made by useCallback keeps the values of the render that made it until   *)
(* one of its dependencies changes.  isLoading is not a dependency of      *)
(* fetchAuditRecords; it is one of handleRefresh.                          *)
(***************************************************************************)
MaxRequests == 3

RenderedState == [isLoading |-> isLoading, error |-> error, tableData |-> tableData]

InFlight == { i \in 1..Len(expandedAuditRequests) : expandedAuditRequests[i] = "pending" }

\* The first render of the component has been committed; its effects have
\* yet to run.
HookInit ==
    /\ isLoading = FALSE
    /\ error = Undefined
    /\ tableData = Undefined
    /\ rendered = [isLoading |-> FALSE, error |-> Undefined, tableData |-> Undefined]
    /\ fetchAuditRecordsSees = FALSE
    /\ isMounted = TRUE
    /\ effectPending = TRUE
    /\ expandedAuditRequests = <<>>

\* fetchAuditRecords up to its await.  The early return leaves through the
\* finally block.
fetchAuditRecords ==
    IF fetchAuditRecordsSees
        THEN /\ isLoading' = (IF isMounted THEN FALSE ELSE isLoading)
             /\ UNCHANGED <<error, expandedAuditRequests>>
        ELSE /\ isLoading' = TRUE
             /\ error' = Undefined
             /\ expandedAuditRequests' = Append(expandedAuditRequests, "pending")

\* useEffect(() => { void fetchAuditRecords(); ... }, [fetchAuditRecords])
RunEffect ==
    /\ effectPending
    /\ Len(expandedAuditRequests) < MaxRequests
    /\ effectPending' = FALSE
    /\ fetchAuditRecords
    /\ UNCHANGED <<tableData, rendered, fetchAuditRecordsSees, isMounted>>

\* The view shows the refresh control unless it shows the error or the
\* spinner.
RefreshControlShown ==
    /\ ~ToBoolean(rendered.error)
    /\ ~(rendered.isLoading /\ ~ToBoolean(rendered.tableData))

\* A click on the refresh control: handleRefresh of the last render.  React
\* runs the effects that are due before it handles an event.
HandleRefresh ==
    /\ RefreshControlShown
    /\ ~effectPending
    /\ Len(expandedAuditRequests) < MaxRequests
    /\ IF rendered.isLoading
           THEN UNCHANGED <<isLoading, error, expandedAuditRequests>>
           ELSE fetchAuditRecords
    /\ UNCHANGED <<tableData, rendered, fetchAuditRecordsSees, isMounted,
                   effectPending>>

\* React renders the component again after a state change; the props are
\* the same, so fetchAuditRecords stays the callback it was.
Render ==
    /\ rendered # RenderedState
    /\ rendered' = RenderedState
    /\ UNCHANGED <<isLoading, error, tableData, fetchAuditRecordsSees,
                   isMounted, effectPending, expandedAuditRequests>>

\* The component is rendered with another controlConfig or primaryEntityId:
\* fetchAuditRecords is made anew, the effect's cleanup runs and the effect
\* is due again.
RenderWithNewProps ==
    /\ ~effectPending
    /\ rendered' = RenderedState
    /\ fetchAuditRecordsSees' = isLoading
    /\ isMounted' = FALSE
    /\ effectPending' = TRUE
    /\ UNCHANGED <<isLoading, error, tableData, expandedAuditRequests>>

\* getExpandedAuditRecords resolves: the rest of the try block and finally.
ExpandedAuditRecordsResolved ==
    \E i \in InFlight :
        /\ expandedAuditRequests' = [expandedAuditRequests EXCEPT ![i] = "resolved"]
        /\ tableData' = (IF isMounted THEN Obj([request |-> Num(i)]) ELSE tableData)
        /\ isLoading' = (IF isMounted THEN FALSE ELSE isLoading)
        /\ UNCHANGED <<error, rendered, fetchAuditRecordsSees, isMounted,
                       effectPending>>

\* getExpandedAuditRecords rejects: handleError and finally.
ExpandedAuditRecordsRejected ==
    \E i \in InFlight, thrown \in {"ControlOperationalError", "Error"} :
        /\ expandedAuditRequests' = [expandedAuditRequests EXCEPT ![i] = "rejected"]
        /\ error' = (IF ~isMounted THEN error
                     ELSE IF thrown = "ControlOperationalError"
                         THEN Obj([message |-> Str("rejected")])
                     ELSE Obj([message |-> Str("There has been an unexpected error")]))
        /\ isLoading' = (IF isMounted THEN FALSE ELSE isLoading)
        /\ UNCHANGED <<tableData, rendered, fetchAuditRecordsSees, isMounted,
                       effectPending>>

InitHook ==
    /\ ParserIdle /\ MergeIdle /\ AuditIdle /\ CacheIdle
    /\ BuilderIdle /\ HookInit
    /\ ComparerIdle /\ ExtractIdle /\ ControllerIdle /\ EnrichIdle
NextHook ==
    /\ \/ RunEffect
       \/ HandleRefresh
       \/ Render
       \/ RenderWithNewProps
       \/ ExpandedAuditRecordsResolved
       \/ ExpandedAuditRecordsRejected
    /\ UNCHANGED <<builderVars, parserVars, mergeVars, auditVars, cacheVars,
                   comparerVars, extractVars, controllerVars, enrichVars>>
SpecHook == InitHook /\ [][NextHook]_vars

\* C23: whatever the interleaving of the calls to fetchAuditRecords, at most
\* one getExpandedAuditRecords request is in flight at any time.
C23_AtMostOneRequestInFlight == Cardinality(InFlight) <= 1

(***************************************************************************)
(* AuditTableData.enrichRowData                                            *)
(***************************************************************************)

\* new AuditTableRowData(auditDetailItem), as far as enrichment uses it
AuditTableRowData(item) ==
    [ entityReference |-> [ id |-> item.auditRecord.recordId,
                            logicalName |-> item.auditRecord.recordLogicalName ],
      id |-> item.auditRecord.id,
      rawChangeData |-> item.changeData,
      rawTargetRecordData |-> item.targetRecords ]

\* buildRawRowData
buildRawRowData(auditDetailItems) ==
    [i \in 1..Len(auditDetailItems) |-> AuditTableRowData(auditDetailItems[i])]

\* RecordDisplayNameCollection
getDisplayName(map, recordId) == Get(map, recordId)
\* setDisplayName forgetting the name
setDisplayNameDropped(map, recordId, displayName) == map

setDisplayName(map, recordId, displayName) == SetProp(map, recordId, displayName)

\* The entitiesToRequiredMetadataMap of buildEntityMetadataRequests.  Its
\* values are RequiredMetadata objects held by reference: heap[o] is object
\* o, refs lists the map's keys in insertion order with the object each one
\* refers to, reads counts the calls made on the entity metadata store.
EmptyRequiredMetadataMap == [refs |-> <<>>, heap |-> <<>>, reads |-> 0]

HasRef(required, entityName) ==
    \E i \in 1..Len(required.refs) : required.refs[i].entity = entityName
RefOf(required, entityName) ==
    required.refs[CHOOSE i \in 1..Len(required.refs) :
                      required.refs[i].entity = entityName].object

\* if (!map[name]) { map[name] = emptyRequiredMetadataValue; }
EnsureRef(required, entityName, object) ==
    IF HasRef(required, entityName) THEN required
    ELSE [required EXCEPT
             !.refs = Append(@, [entity |-> entityName, object |-> object])]

\* const emptyRequiredMetadataValue = { new Set(), false }
NewRequiredMetadata(required) ==
    [required EXCEPT
        !.heap = Append(@, [ attributesToFetchDataFor |-> {},
                             doFetchEntityLevelMetadata |-> FALSE ])]

RECURSIVE identifyAttributes(_, _, _, _)
\* The for loop of identifyAttributesToEnrich over row.rawChangeData.
identifyAttributes(changes, logicalName, map, required) ==
    IF changes = <<>> THEN required
    ELSE
      LET change == Head(changes)
          storedValue == getAttribute(map, logicalName,
                                      change.changedFieldLogicalName)
          counted == [required EXCEPT !.reads = @ + 1]
          next ==
            IF ~IsNullish(storedValue) THEN counted
            ELSE [counted EXCEPT
                     !.heap[RefOf(required, logicalName)].attributesToFetchDataFor =
                         @ \cup {change.changedFieldLogicalName}]
      IN  identifyAttributes(Tail(changes), logicalName, map, next)

identifyAttributesToEnrich(row, map, required) ==
    IF IsNullish(row.rawChangeData) \/ Len(row.rawChangeData.v) = 0
        THEN required
    ELSE LET created == NewRequiredMetadata(required)
             emptyRequiredMetadataValue == Len(created.heap)
         IN  identifyAttributes(
                 row.rawChangeData.v, row.entityReference.logicalName, map,
                 EnsureRef(created, row.entityReference.logicalName,
                           emptyRequiredMetadataValue))

RECURSIVE identifyEntityLevelData(_, _, _, _)
\* The for loop of identifyEntityLevelDataToEnrich over
\* row.rawTargetRecordData; every target type new to the map is given the
\* one emptyRequiredMetadataValue object of this call.
identifyEntityLevelData(targetRecords, emptyRequiredMetadataValue, map, required) ==
    IF targetRecords = <<>> THEN required
    ELSE
      LET targetRecord == Head(targetRecords)
          name == targetRecord.changedEntityLogicalName
          ensured == EnsureRef(required, name, emptyRequiredMetadataValue)
          storedDisplayName == getEntityDisplayName(map, name)
          storedPrimaryNameAttribute == getEntityPrimaryNameAttribute(map, name)
          counted == [ensured EXCEPT !.reads = @ + 2]
          next ==
            IF storedDisplayName # Undefined /\ storedPrimaryNameAttribute # Undefined
                THEN counted
            ELSE [counted EXCEPT
                     !.heap[RefOf(ensured, name)].doFetchEntityLevelMetadata = TRUE]
      IN  identifyEntityLevelData(Tail(targetRecords),
                                  emptyRequiredMetadataValue, map, next)

identifyEntityLevelDataToEnrich(row, map, required) ==
    IF Falsy(row.rawTargetRecordData) THEN required
    ELSE LET created == NewRequiredMetadata(required)
         IN  identifyEntityLevelData(row.rawTargetRecordData.v,
                                     Len(created.heap), map, created)

RECURSIVE identifyRows(_, _, _)
\* The first for loop of buildEntityMetadataRequests.
identifyRows(rows, map, required) ==
    IF rows = <<>> THEN required
    ELSE identifyRows(
             Tail(rows), map,
             identifyEntityLevelDataToEnrich(
                 Head(rows), map,
                 identifyAttributesToEnrich(Head(rows), map, required)))

RECURSIVE requestsFor(_, _)
\* The second for loop of buildEntityMetadataRequests (for..in).
requestsFor(refs, heap) ==
    IF refs = <<>> THEN <<>>
    ELSE LET requiredMetadata == heap[Head(refs).object]
         IN  IF /\ requiredMetadata.attributesToFetchDataFor = {}
                /\ ~requiredMetadata.doFetchEntityLevelMetadata
                 THEN requestsFor(Tail(refs), heap)
             ELSE << [ entityLogicalName |-> Head(refs).entity,
                       attributeLogicalNames |->
                           requiredMetadata.attributesToFetchDataFor ] >>
                  \o requestsFor(Tail(refs), heap)

\* buildEntityMetadataRequests: the requests, and how many reads of the
\* entity metadata store it took to build them.
buildEntityMetadataRequests(rows, map) ==
    LET required == identifyRows(rows, map, EmptyRequiredMetadataMap)
    IN  [ requests |-> requestsFor(required.refs, required.heap),
          reads |-> required.reads ]

\* fetchEntityMetadata's response to a request: the attributes listed are
\* those of the request the service found metadata for.
ServiceFetchEntityMetadataResponse(request, displayName, primaryNameAttribute, found) ==
    [ LogicalName |-> request.entityLogicalName,
      DisplayName |-> displayName,
      PrimaryNameAttribute |-> primaryNameAttribute,
      attributes |-> found ]

RECURSIVE setAttributes(_, _, _)
\* The inner for loop of updateMetadataStore.
setAttributes(map, logicalName, attributes) ==
    IF attributes = <<>> THEN map
    ELSE setAttributes(setAttribute(map, logicalName, Head(attributes)).map,
                       logicalName, Tail(attributes))

RECURSIVE setResponses(_, _)
\* The outer for loop of updateMetadataStore.
setResponses(map, entityMetadataResponses) ==
    IF entityMetadataResponses = <<>> THEN map
    ELSE LET response == Head(entityMetadataResponses)
             named == setEntityDisplayName(map, response.LogicalName,
                                           response.DisplayName).map
             keyed == setEntityPrimaryNameAttribute(
                          named, response.LogicalName,
                          response.PrimaryNameAttribute).map
         IN  setResponses(setAttributes(keyed, response.LogicalName,
                                        response.attributes),
                          Tail(entityMetadataResponses))

\* saveData letting a failing localStorage.setItem escape
saveDataUncaught(storage, map, stored) ==
    [ threw |-> ~stored,
      storage |-> IF stored THEN SavedText(version, map) ELSE storage ]

\* saveData: stored tells whether localStorage.setItem went through; a
\* failure is caught and logged.
saveData(storage, map, stored) ==
    [ threw |-> FALSE,
      storage |-> IF stored THEN SavedText(version, map) ELSE storage ]

\* updateMetadataStore saving without setting what the responses hold
updateMetadataStoreSaveOnly(storage, map, entityMetadataResponses, stored) ==
    LET saved == saveData(storage, map, stored)
    IN  [threw |-> saved.threw, map |-> map, storage |-> saved.storage]

\* updateMetadataStore
updateMetadataStore(storage, map, entityMetadataResponses, stored) ==
    LET updated == setResponses(map, entityMetadataResponses)
        saved == saveData(storage, updated, stored)
    IN  [threw |-> saved.threw, map |-> updated, storage |-> saved.storage]

\* recordsToFetchDataForByEntity of buildEntityPrimaryNameValueRequests:
\* entries in insertion order, and the reads made on the two stores.
EmptyRecordsToFetch == [entries |-> <<>>, metadataReads |-> 0, displayNameReads |-> 0]

HasEntry(records, logicalName) ==
    \E i \in 1..Len(records.entries) : records.entries[i].entityLogicalName = logicalName
EntryOf(records, logicalName) ==
    CHOOSE i \in 1..Len(records.entries) :
        records.entries[i].entityLogicalName = logicalName

RECURSIVE targetRecordsToFetch(_, _, _, _)
\* The inner for loop of buildEntityPrimaryNameValueRequests.
targetRecordsToFetch(targetRecords, map, names, records) ==
    IF targetRecords = <<>> THEN records
    ELSE
      LET targetRecord == Head(targetRecords)
          logicalName == targetRecord.changedEntityLogicalName
          looked == [records EXCEPT !.displayNameReads = @ + 1]
          primaryNameAttribute == getEntityPrimaryNameAttribute(map, logicalName)
          asked == [looked EXCEPT !.metadataReads = @ + 1]
          ensured ==
            IF HasEntry(asked, logicalName) THEN asked
            ELSE [asked EXCEPT
                     !.entries = Append(@, [ entityLogicalName |-> logicalName,
                                             ids |-> <<>>,
                                             primaryNameAttribute |->
                                                 primaryNameAttribute.v ])]
          next ==
            IF ~Falsy(getDisplayName(names, targetRecord.changedEntityId))
                THEN looked
            ELSE IF Falsy(primaryNameAttribute) THEN asked
            ELSE [ensured EXCEPT
                     !.entries[EntryOf(ensured, logicalName)].ids =
                         Append(@, targetRecord.changedEntityId)]
      IN  targetRecordsToFetch(Tail(targetRecords), map, names, next)

RECURSIVE rowsToFetch(_, _, _, _)
\* The outer for loop of buildEntityPrimaryNameValueRequests.
rowsToFetch(rows, map, names, records) ==
    IF rows = <<>> THEN records
    ELSE rowsToFetch(
             Tail(rows), map, names,
             IF Falsy(Head(rows).rawTargetRecordData) THEN records
             ELSE targetRecordsToFetch(Head(rows).rawTargetRecordData.v,
                                       map, names, records))

\* buildEntityPrimaryNameValueRequests asking for every target record,
\* named already or not
buildEntityPrimaryNameValueRequestsAll(rows, map, names) ==
    LET records == rowsToFetch(rows, map, EmptyObject, EmptyRecordsToFetch)
        kept == SelectSeq(records.entries, LAMBDA entry : Len(entry.ids) # 0)
    IN  [ requests |->
              [i \in 1..Len(kept) |->
                  [ entityLogicalName |-> kept[i].entityLogicalName,
                    select |-> <<kept[i].primaryNameAttribute>>,
                    ids |-> kept[i].ids ]],
          metadataReads |-> records.metadataReads,
          displayNameReads |-> records.displayNameReads ]

\* buildEntityPrimaryNameValueRequests
buildEntityPrimaryNameValueRequests(rows, map, names) ==
    LET records == rowsToFetch(rows, map, names, EmptyRecordsToFetch)
        kept == SelectSeq(records.entries, LAMBDA entry : Len(entry.ids) # 0)
    IN  [ requests |->
              [i \in 1..Len(kept) |->
                  [ entityLogicalName |-> kept[i].entityLogicalName,
                    select |-> <<kept[i].primaryNameAttribute>>,
                    ids |-> kept[i].ids ]],
          metadataReads |-> records.metadataReads,
          displayNameReads |-> records.displayNameReads ]

\* tryGetRecordValue: the value, or a throw when it is undefined or null
tryGetRecordValue(record, key) ==
    LET attributeValue == Read(record, key)
    IN  [threw |-> IsNullish(attributeValue), value |-> attributeValue]

\* Outcome of updateRecordDisplayNameStore: the display names afterwards,
\* whether it threw, the ids written in order and the reads of the entity
\* metadata store.
NamesOutcome(names) == [threw |-> FALSE, names |-> names, written |-> <<>>, reads |-> 0]

RECURSIVE setEntities(_, _, _, _)
\* The inner for loop of updateRecordDisplayNameStore.
setEntities(entities, entityLogicalName, primaryNameAttribute, outcome) ==
    IF entities = <<>> THEN outcome
    ELSE
      LET entity == Head(entities)
          primaryNameValue == tryGetRecordValue(entity, primaryNameAttribute)
          idAttribute == entityLogicalName \o "id"
          id == tryGetRecordValue(entity, idAttribute)
      IN  IF primaryNameValue.threw \/ id.threw
              THEN [outcome EXCEPT !.threw = TRUE]
          ELSE setEntities(
                   Tail(entities), entityLogicalName, primaryNameAttribute,
                   [outcome EXCEPT
                       !.names = setDisplayName(@, id.value.v, primaryNameValue.value),
                       !.written = Append(@, id.value.v)])

RECURSIVE setNames(_, _, _)
\* The outer for loop of updateRecordDisplayNameStore.
setNames(responses, map, outcome) ==
    IF responses = <<>> \/ outcome.threw THEN outcome
    ELSE
      LET response == Head(responses)
          primaryNameAttribute ==
              getEntityPrimaryNameAttribute(map, response.entityLogicalName)
          counted == [outcome EXCEPT !.reads = @ + 1]
      IN  setNames(Tail(responses), map,
                   IF Falsy(primaryNameAttribute) THEN counted
                   ELSE setEntities(response.entities, response.entityLogicalName,
                                    primaryNameAttribute.v, counted))

\* updateRecordDisplayNameStore
updateRecordDisplayNameStore(names, map, responses) ==
    setNames(responses, map, NamesOutcome(names))

\* getEnrichedChangeData
getEnrichedChangeData(row, map) ==
    [i \in 1..Len(row.rawChangeData.v) |->
        LET changedItem == row.rawChangeData.v[i]
            attribute == getAttribute(map, row.entityReference.logicalName,
                                      changedItem.changedFieldLogicalName)
            displayName == IF IsNullish(attribute) THEN Undefined
                           ELSE Get(attribute, "displayName")
        IN  [ changedFieldLogicalName |-> changedItem.changedFieldLogicalName,
              changedFieldDisplayName |->
                  IF IsNullish(displayName)
                      THEN Str(changedItem.changedFieldLogicalName)
                      ELSE displayName,
              oldValue |-> changedItem.oldValueRaw,
              newValue |-> changedItem.newValueRaw ]]

\* getEnrichedTargetRecordChangeData
getEnrichedTargetRecordChangeData(changeData, names, defaultDisplayName) ==
    IF Falsy(changeData.lookup) THEN changeData
    ELSE LET primaryName == getDisplayName(names, changeData.lookup.id.v)
         IN  [ text |-> IF IsNullish(primaryName) THEN defaultDisplayName
                        ELSE primaryName,
               lookup |-> changeData.lookup ]

\* getEnrichedTargetRecordData
getEnrichedTargetRecordData(row, map, names) ==
    [i \in 1..Len(row.rawTargetRecordData.v) |->
        LET targetRecord == row.rawTargetRecordData.v[i]
            stored == getEntityDisplayName(map, targetRecord.changedEntityLogicalName)
            entityDisplayName ==
                IF IsNullish(stored) THEN Str(targetRecord.changedEntityLogicalName)
                ELSE stored
        IN  [ changedFieldLogicalName |-> targetRecord.changedEntityLogicalName,
              changedFieldDisplayName |-> entityDisplayName,
              oldValue |-> getEnrichedTargetRecordChangeData(
                               targetRecord.oldValueRaw, names, entityDisplayName),
              newValue |-> getEnrichedTargetRecordChangeData(
                               targetRecord.newValueRaw, names, entityDisplayName) ]]

\* enrichWithMetadata taking the target records of a row that has both
enrichWithMetadataTargetsFirst(row, map, names) ==
    [ entityReference |-> row.entityReference,
      id |-> row.id,
      enrichedChangeData |->
          IF ~Falsy(row.rawTargetRecordData)
              THEN Arr(getEnrichedTargetRecordData(row, map, names))
          ELSE IF ~Falsy(row.rawChangeData)
              THEN Arr(getEnrichedChangeData(row, map))
          ELSE Undefined ]

\* enrichWithMetadata
enrichWithMetadata(row, map, names) ==
    [ entityReference |-> row.entityReference,
      id |-> row.id,
      enrichedChangeData |->
          IF ~Falsy(row.rawChangeData)
              THEN Arr(getEnrichedChangeData(row, map))
          ELSE IF ~Falsy(row.rawTargetRecordData)
              THEN Arr(getEnrichedTargetRecordData(row, map, names))
          ELSE Undefined ]

\* buildEnrichedRowData
buildEnrichedRowData(rows, map, names) ==
    Arr([i \in 1..Len(rows) |-> enrichWithMetadata(rows[i], map, names)])

\* Inputs: at most MaxRows audit detail items, each an attribute change on
\* an account or a contact, an association or disassociation with two
\* target records, an association that also carries attribute values, or
\* an entry with neither; a Metadata Cache that knows no entity type, or one
\* of the two, or the contact's names without its attributes; a Display
\* Name Cache that is empty or knows contact c1.  Where the control
\* refreshes, it runs at most MaxPasses enrichment passes over the same
\* items (at most MaxRowsAgain of them) and caches.
MaxRows == 2
MaxRowsAgain == 1
MaxPasses == 2

EnrichAuditRecord(auditid, action, type) ==
    [ auditid |-> auditid, action |-> action, createdon |-> auditid,
      _objectid_value |-> "r1", objecttypecode |-> type ]

NameValues == ChangeValuesOf("name", <<"7">>, <<>>, <<>>)
NameAndOwnerValues ==
    Record(<<Pair("name", "7"), Pair("_ownerid_value", "u1"),
             Pair("_ownerid_value" \o FormattedValue, "Una"),
             Pair("_ownerid_value" \o LookupLogicalName, "systemuser")>>)

ContactC1 == Record(<<Pair(Type, "#Microsoft.Dynamics.CRM.contact"),
                      Pair("contactid", "c1")>>)
ContactC2 == Record(<<Pair(Type, "#Microsoft.Dynamics.CRM.contact"),
                      Pair("contactid", "c2")>>)
AccountA1 == Record(<<Pair("accountid", "a1"),
                      Pair(Type, "#Microsoft.Dynamics.CRM.account")>>)

EnrichDetailShapes ==
    { [ action |-> 2, type |-> "account",
        old |-> NameValues, new |-> NameValues, targets |-> Undefined ],
      [ action |-> 2, type |-> "contact",
        old |-> NameAndOwnerValues, new |-> NameAndOwnerValues,
        targets |-> Undefined ],
      [ action |-> disassociateEntitiesAction, type |-> "account",
        old |-> Undefined, new |-> Undefined,
        targets |-> Arr(<<ContactC1, AccountA1>>) ],
      [ action |-> associateEntitiesAction, type |-> "account",
        old |-> Undefined, new |-> Undefined,
        targets |-> Arr(<<ContactC1, ContactC2>>) ],
      [ action |-> associateEntitiesAction, type |-> "account",
        old |-> NameValues, new |-> NameValues, targets |-> Arr(<<ContactC1>>) ],
      [ action |-> 1, type |-> "contact",
        old |-> Undefined, new |-> Undefined, targets |-> Undefined ] }

EnrichDetail(auditid, shape) ==
    [ t |-> "object",
      AuditRecord |-> EnrichAuditRecord(auditid, shape.action, shape.type),
      OldValue |-> shape.old, NewValue |-> shape.new,
      TargetRecords |-> shape.targets ]

DisplayNameOf(entityLogicalName) ==
    IF entityLogicalName = "account" THEN "Account" ELSE "Contact"
PrimaryNameOf(entityLogicalName) ==
    IF entityLogicalName = "account" THEN "name" ELSE "fullname"
AttributeDisplayNameOf(attributeLogicalName) ==
    IF attributeLogicalName = "name" THEN "Name" ELSE "Owner"
RecordNameOf(recordId) ==
    IF recordId = "c1" THEN "Ann" ELSE IF recordId = "c2" THEN "Bob" ELSE "Acme"

\* The entity's names as an earlier pass stored them.
NamesKnown(map, entityLogicalName) ==
    setEntityPrimaryNameAttribute(
        setEntityDisplayName(map, entityLogicalName,
                             DisplayNameOf(entityLogicalName)).map,
        entityLogicalName, PrimaryNameOf(entityLogicalName)).map

\* The entity's names and attributes as an earlier pass stored them.
AllKnown(map, entityLogicalName) ==
    setAttributes(NamesKnown(map, entityLogicalName), entityLogicalName,
                  << ControlAttributeDefinition("name", "Name"),
                     ControlAttributeDefinition("ownerid", "Owner") >>)

InitialMetadataMaps ==
    { EmptyObject, AllKnown(EmptyObject, "account"),
      AllKnown(EmptyObject, "contact"),
      NamesKnown(EmptyObject, "contact") }

InitialDisplayNames ==
    { EmptyObject, setDisplayName(EmptyObject, "c1", Str("Ann")) }

\* What the pass has done, in order: e names the step, pass the pass of the
\* algorithm it belongs to, arg what it was done to.
Event(e, pass, arg) == [e |-> e, pass |-> pass, arg |-> arg]

\* One event when count reads were made, none otherwise.
Reads(e, pass, count) == IF count = 0 THEN <<>> ELSE <<Event(e, pass, count)>>

Each(e, pass, args) == [i \in 1..Len(args) |-> Event(e, pass, args[i])]

RECURSIVE AsSequence(_)
\* The elements of a set of strings, in some fixed order.
AsSequence(S) ==
    IF S = {} THEN <<>>
    ELSE LET x == CHOOSE y \in S : TRUE IN <<x>> \o AsSequence(S \ {x})

\* The ids of a request with repeats dropped, in order of first occurrence.
DistinctIds(ids) ==
    SelectSeq([i \in 1..Len(ids) |->
                  IF \E j \in 1..(i - 1) : ids[j] = ids[i] THEN "" ELSE ids[i]],
              LAMBDA id : id # "")

\* What fetchEntityMetadata may answer to a request: metadata for every
\* requested attribute, or for none of them.
MetadataResponses(request) ==
    LET attributes == AsSequence(request.attributeLogicalNames)
        definitions ==
            [i \in 1..Len(attributes) |->
                ControlAttributeDefinition(attributes[i],
                                           AttributeDisplayNameOf(attributes[i]))]
    IN  { ServiceFetchEntityMetadataResponse(
              request, DisplayNameOf(request.entityLogicalName),
              PrimaryNameOf(request.entityLogicalName), found) :
          found \in {definitions, <<>>} }

FetchedRecord(request, recordId) ==
    Record(<<Pair(request.select[1], RecordNameOf(recordId)),
             Pair(request.entityLogicalName \o "id", recordId)>>)

\* What fetchMultipleRecords may answer to a request: every record asked
\* for, the same with the last record lacking its primary name or its id,
\* or no record.
RecordResponses(request) ==
    LET ids == DistinctIds(request.ids)
        all == [i \in 1..Len(ids) |-> FetchedRecord(request, ids[i])]
        last == all[Len(all)]
        front == SubSeq(all, 1, Len(all) - 1)
    IN  { [entities |-> entities, entityLogicalName |-> request.entityLogicalName] :
          entities \in { all, <<>>,
                         Append(front, Record(<<last.v[2]>>)),
                         Append(front, Record(<<last.v[1]>>)) } }

Fulfilled(response) == [kind |-> "ok", response |-> response]
Rejected == [kind |-> "rejected"]

AllFulfilled(settled) == \A i \in 1..Len(settled) : settled[i].kind = "ok"
SomeRejected(settled) == \E i \in 1..Len(settled) : settled[i].kind = "rejected"
SomePending(settled) == \E i \in 1..Len(settled) : settled[i] = Pending

\* Promise.all waiting for every promise to settle and never rejecting
PromiseAllSettled(settled) ==
    IF SomePending(settled) THEN "pending" ELSE "fulfilled"

\* Promise.all fulfilling with the first promise that does
PromiseAllFirst(settled) ==
    IF SomeRejected(settled) THEN "rejected"
    ELSE IF settled = <<>> \/ \E i \in 1..Len(settled) : settled[i].kind = "ok"
        THEN "fulfilled"
    ELSE "pending"

\* await Promise.all(promises): rejected as soon as one promise is,
\* fulfilled when all are.
PromiseAll(settled) ==
    IF SomeRejected(settled) THEN "rejected"
    ELSE IF AllFulfilled(settled) THEN "fulfilled"
    ELSE "pending"

\* The values Promise.all fulfils with.
ResponsesOf(settled) ==
    LET fulfilled == SelectSeq(settled, LAMBDA s : s.kind = "ok")
    IN  [i \in 1..Len(fulfilled) |-> fulfilled[i].response]

MsgMetadataFailed == "Failed to fetch entity metadata"
MsgRecordsFailed == "Failed to fetch record primary name values"
MsgRecordValue == "Attribute is null or undefined"

\* new AuditTableData(auditDetailItems, ...) over at most maxRows items
EnrichInitOf(maxRows) ==
    /\ \E n \in 0..maxRows :
         \E shapes \in [1..n -> EnrichDetailShapes] :
           rawRowData = buildRawRowData(
                            [i \in 1..n |-> construct(EnrichDetail(i, shapes[i]))])
    /\ _entityMetadataMap \in InitialMetadataMaps
    /\ localStorage = SavedText(version, _entityMetadataMap)
    /\ _recordIdToDisplayNameMap \in InitialDisplayNames
    /\ cacheOps = 0
    /\ lastCall = Idle
    /\ enrichPc = "start"
    /\ metadataRequests = <<>>
    /\ metadataSettled = <<>>
    /\ recordRequests = <<>>
    /\ recordSettled = <<>>
    /\ rowData = Undefined
    /\ enrichLog = <<>>
    /\ atStart = [ map |-> _entityMetadataMap, storage |-> localStorage,
                   names |-> _recordIdToDisplayNameMap,
                   pass |-> 1, previous |-> Undefined ]

EnrichInit == EnrichInitOf(MaxRows)

\* enrichRowData up to its first await: buildEntityMetadataRequests, then
\* requests.map(fetchEntityMetadata) and Promise.all.
EnrichRowData ==
    /\ enrichPc = "start"
    /\ LET built == buildEntityMetadataRequests(rawRowData, _entityMetadataMap)
       IN  /\ metadataRequests' = built.requests
           /\ metadataSettled' = [i \in 1..Len(built.requests) |-> Pending]
           /\ enrichLog' = enrichLog
                  \o Reads("readMetadata", 1, built.reads)
                  \o Each("fetchEntityMetadata", 2,
                          [i \in 1..Len(built.requests) |->
                              built.requests[i].entityLogicalName])
    /\ enrichPc' = "awaitMetadata"
    /\ UNCHANGED <<rawRowData, _recordIdToDisplayNameMap, recordRequests,
                   recordSettled, rowData, atStart, cacheVars>>

\* One fetchEntityMetadata promise settles.  A promise still pending when
\* Promise.all has settled settles all the same.
MetadataSettles ==
    /\ enrichPc # "start"
    /\ \E i \in 1..Len(metadataSettled) :
         /\ metadataSettled[i] = Pending
         /\ \E outcome \in {Rejected}
                 \cup {Fulfilled(r) : r \in MetadataResponses(metadataRequests[i])} :
              /\ metadataSettled' = [metadataSettled EXCEPT ![i] = outcome]
              /\ enrichLog' = Append(enrichLog,
                                     Event("metadataSettled", 2, outcome.kind))
    /\ UNCHANGED <<rawRowData, _recordIdToDisplayNameMap, enrichPc,
                   metadataRequests, recordRequests, recordSettled, rowData,
                   atStart, cacheVars>>

\* Promise.all of the metadata requests rejected: the catch of
\* executeFetchMetadataRequests wraps the error and enrichRowData rejects.
MetadataRejected ==
    /\ enrichPc = "awaitMetadata"
    /\ PromiseAll(metadataSettled) = "rejected"
    /\ enrichPc' = "failed"
    /\ enrichLog' = Append(enrichLog, Event("failed", 2, MsgMetadataFailed))
    /\ UNCHANGED <<rawRowData, _recordIdToDisplayNameMap, metadataRequests,
                   metadataSettled, recordRequests, recordSettled, rowData,
                   atStart, cacheVars>>

\* Promise.all of the metadata requests fulfilled: updateMetadataStore,
\* buildEntityPrimaryNameValueRequests, then requests.map(fetchMultipleRecords)
\* and Promise.all, up to the second await.
MetadataResolved ==
    /\ enrichPc = "awaitMetadata"
    /\ PromiseAll(metadataSettled) = "fulfilled"
    /\ \E stored \in BOOLEAN :
         LET responses == ResponsesOf(metadataSettled)
             updated == updateMetadataStore(localStorage, _entityMetadataMap,
                                            responses, stored)
             built == buildEntityPrimaryNameValueRequests(
                          rawRowData, updated.map, _recordIdToDisplayNameMap)
             applied == Each("setMetadata", 3,
                             [i \in 1..Len(responses) |-> responses[i].LogicalName])
                        \o <<Event("saveData", 3, stored)>>
         IN  /\ _entityMetadataMap' = updated.map
             /\ localStorage' = updated.storage
             /\ IF updated.threw
                  THEN /\ enrichPc' = "failed"
                       /\ enrichLog' = enrichLog \o applied
                              \o <<Event("failed", 3, "saveData")>>
                       /\ UNCHANGED <<recordRequests, recordSettled>>
                  ELSE /\ enrichPc' = "awaitRecords"
                       /\ recordRequests' = built.requests
                       /\ recordSettled' = [i \in 1..Len(built.requests) |-> Pending]
                       /\ enrichLog' = enrichLog \o applied
                              \o Reads("readDisplayNames", 4, built.displayNameReads)
                              \o Reads("readMetadata", 4, built.metadataReads)
                              \o Each("fetchMultipleRecords", 4,
                                      [i \in 1..Len(built.requests) |->
                                          built.requests[i].entityLogicalName])
    /\ UNCHANGED <<rawRowData, _recordIdToDisplayNameMap, metadataRequests,
                   metadataSettled, rowData, atStart, cacheOps, lastCall>>

\* One fetchMultipleRecords promise settles.
RecordsSettle ==
    /\ enrichPc # "start"
    /\ \E i \in 1..Len(recordSettled) :
         /\ recordSettled[i] = Pending
         /\ \E outcome \in {Rejected}
                 \cup {Fulfilled(r) : r \in RecordResponses(recordRequests[i])} :
              /\ recordSettled' = [recordSettled EXCEPT ![i] = outcome]
              /\ enrichLog' = Append(enrichLog,
                                     Event("recordsSettled", 4, outcome.kind))
    /\ UNCHANGED <<rawRowData, _recordIdToDisplayNameMap, enrichPc,
                   metadataRequests, metadataSettled, recordRequests, rowData,
                   atStart, cacheVars>>

\* Promise.all of the record requests rejected.
RecordsRejected ==
    /\ enrichPc = "awaitRecords"
    /\ PromiseAll(recordSettled) = "rejected"
    /\ enrichPc' = "failed"
    /\ enrichLog' = Append(enrichLog, Event("failed", 4, MsgRecordsFailed))
    /\ UNCHANGED <<rawRowData, _recordIdToDisplayNameMap, metadataRequests,
                   metadataSettled, recordRequests, recordSettled, rowData,
                   atStart, cacheVars>>

\* Promise.all of the record requests fulfilled: updateRecordDisplayNameStore
\* and buildEnrichedRowData, to the end of enrichRowData.
RecordsResolved ==
    /\ enrichPc = "awaitRecords"
    /\ PromiseAll(recordSettled) = "fulfilled"
    /\ LET outcome == updateRecordDisplayNameStore(
                          _recordIdToDisplayNameMap, _entityMetadataMap,
                          ResponsesOf(recordSettled))
           applied == Reads("readMetadata", 4, outcome.reads)
                      \o Each("setDisplayName", 4, outcome.written)
       IN  /\ _recordIdToDisplayNameMap' = outcome.names
           /\ IF outcome.threw
                THEN /\ enrichPc' = "failed"
                     /\ enrichLog' = enrichLog \o applied
                            \o <<Event("failed", 4, MsgRecordValue)>>
                     /\ UNCHANGED rowData
                ELSE /\ enrichPc' = "done"
                     /\ rowData' = buildEnrichedRowData(
                                       rawRowData, _entityMetadataMap, outcome.names)
                     /\ enrichLog' = enrichLog \o applied
                            \o <<Event("buildEnrichedRowData", 5, Len(rawRowData))>>
    /\ UNCHANGED <<rawRowData, metadataRequests, metadataSettled,
                   recordRequests, recordSettled, atStart, cacheVars>>

InitEnrich ==
    /\ ParserIdle /\ MergeIdle /\ AuditIdle /\ EnrichInit
    /\ BuilderIdle /\ HookIdle
    /\ ComparerIdle /\ ExtractIdle /\ ControllerIdle
NextEnrich ==
    /\ \/ EnrichRowData
       \/ MetadataSettles
       \/ MetadataRejected
       \/ MetadataResolved
       \/ RecordsSettle
       \/ RecordsRejected
       \/ RecordsResolved
    /\ UNCHANGED <<builderVars, hookVars,
                   parserVars, mergeVars, auditVars, comparerVars, extractVars,
                   controllerVars>>
SpecEnrich == InitEnrich /\ [][NextEnrich]_vars

\* Every metadata request was answered with all the attributes it asked
\* for, and every record request with all its records, each with its id
\* and a non-empty primary name.
FullyAnswered ==
    /\ \A i \in 1..Len(metadataRequests) :
         /\ metadataSettled[i].kind = "ok"
         /\ Len(metadataSettled[i].response.attributes)
                = Cardinality(metadataRequests[i].attributeLogicalNames)
    /\ \A i \in 1..Len(recordRequests) :
         /\ recordSettled[i].kind = "ok"
         /\ \A k \in 1..Len(recordRequests[i].ids) :
              \E n \in 1..Len(recordSettled[i].response.entities) :
                LET entity == recordSettled[i].response.entities[n]
                IN  /\ Read(entity, recordRequests[i].entityLogicalName \o "id")
                           = Str(recordRequests[i].ids[k])
                    /\ ~Falsy(Read(entity, recordRequests[i].select[1]))

\* The control fetches again (a refresh): getExpandedAuditRecords builds a
\* new AuditTableData over the same audit items with the same two stores
\* and calls enrichRowData on it.
EnrichAgain ==
    /\ enrichPc = "done"
    /\ atStart.pass < MaxPasses
    /\ enrichPc' = "start"
    /\ metadataRequests' = <<>>
    /\ metadataSettled' = <<>>
    /\ recordRequests' = <<>>
    /\ recordSettled' = <<>>
    /\ rowData' = Undefined
    /\ enrichLog' = <<>>
    /\ atStart' = [ map |-> _entityMetadataMap, storage |-> localStorage,
                    names |-> _recordIdToDisplayNameMap,
                    pass |-> atStart.pass + 1,
                    previous |-> [ rows |-> rowData,
                                   full |-> FullyAnswered,
                                   requests |-> Len(metadataRequests)
                                                + Len(recordRequests) ] ]
    /\ UNCHANGED <<rawRowData, _recordIdToDisplayNameMap, cacheVars>>

NextEnrichAgain ==
    /\ \/ EnrichRowData
       \/ MetadataSettles
       \/ MetadataRejected
       \/ MetadataResolved
       \/ RecordsSettle
       \/ RecordsRejected
       \/ RecordsResolved
       \/ EnrichAgain
    /\ UNCHANGED <<builderVars, hookVars,
                   parserVars, mergeVars, auditVars, comparerVars, extractVars,
                   controllerVars>>
InitEnrichAgain ==
    /\ ParserIdle /\ MergeIdle /\ AuditIdle /\ EnrichInitOf(MaxRowsAgain)
    /\ BuilderIdle /\ HookIdle
    /\ ComparerIdle /\ ExtractIdle /\ ControllerIdle
SpecEnrichAgain == InitEnrichAgain /\ [][NextEnrichAgain]_vars

(***************************************************************************)
(* Claims about enrichRowData                                              *)
(***************************************************************************)
Logged(e) == \E i \in 1..Len(enrichLog) : enrichLog[i].e = e
Positions(e) == {i \in 1..Len(enrichLog) : enrichLog[i].e = e}

RowsOfType(T) ==
    {i \in 1..Len(rawRowData) : rawRowData[i].entityReference.logicalName = T}
TargetsOf(row) ==
    IF Falsy(row.rawTargetRecordData) THEN <<>> ELSE row.rawTargetRecordData.v
ChangesOf(row) ==
    IF Falsy(row.rawChangeData) THEN <<>> ELSE row.rawChangeData.v

\* T needs data, judged on the Metadata Cache as the pass found it.
NeedsData(T) ==
    \/ \E i \in RowsOfType(T) :
         \E c \in 1..Len(ChangesOf(rawRowData[i])) :
           IsNullish(getAttribute(atStart.map, T,
                         ChangesOf(rawRowData[i])[c].changedFieldLogicalName))
    \/ \E i \in 1..Len(rawRowData) :
         \E t \in 1..Len(TargetsOf(rawRowData[i])) :
           /\ TargetsOf(rawRowData[i])[t].changedEntityLogicalName = T
           /\ \/ getEntityDisplayName(atStart.map, T) = Undefined
              \/ getEntityPrimaryNameAttribute(atStart.map, T) = Undefined

\* C13: at most one metadata request is dispatched per entity type, and one
\* is dispatched for a type only if that type needs data: an attribute key
\* of one of its rows, or its display name or primary-name attribute as a
\* target type, is missing from the Metadata Cache.
C13_RequestOnlyWhereNeeded ==
    enrichPc # "start" =>
        /\ \A i, j \in 1..Len(metadataRequests) :
             metadataRequests[i].entityLogicalName
                 = metadataRequests[j].entityLogicalName => i = j
        /\ \A i \in 1..Len(metadataRequests) :
             NeedsData(metadataRequests[i].entityLogicalName)

SaveFailed == \E i \in 1..Len(enrichLog) : enrichLog[i] = Event("saveData", 3, FALSE)
FailedInPass(pass) ==
    \E i \in 1..Len(enrichLog) : enrichLog[i].e = "failed" /\ enrichLog[i].pass = pass

\* C11: when the storage write of saveData fails nothing is thrown: storage
\* keeps what it held, the in-memory Metadata Cache holds what pass 3 set,
\* and the pass goes on to pass 4 (its requests are built from that cache
\* and dispatched) and, unless pass 4 fails, to pass 5, which produces the
\* rows.
C11_SaveFailureIsSwallowed ==
    SaveFailed =>
        /\ localStorage = atStart.storage
        /\ _entityMetadataMap =
               setResponses(atStart.map, ResponsesOf(metadataSettled))
        /\ ~FailedInPass(3)
        /\ enrichPc \in {"awaitRecords", "done", "failed"}
        /\ recordRequests =
               buildEntityPrimaryNameValueRequests(
                   rawRowData, _entityMetadataMap, atStart.names).requests
        /\ Cardinality(Positions("fetchMultipleRecords")) = Len(recordRequests)
        /\ enrichPc = "failed" => FailedInPass(4)
        /\ enrichPc = "done" =>
               /\ Logged("buildEnrichedRowData")
               /\ rowData = buildEnrichedRowData(rawRowData, _entityMetadataMap,
                                                 _recordIdToDisplayNameMap)
C11_Witness ==
    /\ SaveFailed
    /\ enrichPc = "done"
    /\ _entityMetadataMap # atStart.map
    /\ recordRequests # <<>>
    /\ rowData # Undefined /\ Len(rowData.v) > 0

\* C12: once a metadata request of pass 2 has failed, the pass can only
\* fail: no Metadata Cache set operation and no saveData is performed (the
\* cache and the storage stay as the pass found them, whatever the other
\* requests answered), no bulk record fetch is dispatched, the Display Name
\* Cache is unchanged and no rows are produced.
C12_MetadataFailureFailsThePass ==
    SomeRejected(metadataSettled) =>
        /\ enrichPc \in {"awaitMetadata", "failed"}
        /\ enrichPc = "failed" => FailedInPass(2)
        /\ ~Logged("setMetadata") /\ ~Logged("saveData")
        /\ _entityMetadataMap = atStart.map
        /\ localStorage = atStart.storage
        /\ ~Logged("fetchMultipleRecords") /\ recordRequests = <<>>
        /\ _recordIdToDisplayNameMap = atStart.names
        /\ rowData = Undefined
C12_Witness ==
    /\ SomeRejected(metadataSettled)
    /\ \E i \in 1..Len(metadataSettled) : metadataSettled[i].kind = "ok"
    /\ enrichPc = "failed"
    /\ ~SomePending(metadataSettled)

Before(e, p) == {i \in Positions(e) : i < p}
InPass(pass) == {i \in 1..Len(enrichLog) : enrichLog[i].pass = pass}

\* The first and the last of a set of positions of the log (past the end
\* and before the start when there is none).
FirstOf(S) == IF S = {} THEN Len(enrichLog) + 1
              ELSE CHOOSE p \in S : \A q \in S : p <= q
LastOf(S) == IF S = {} THEN 0 ELSE CHOOSE p \in S : \A q \in S : q <= p

\* C14: the phases run strictly in order.  Whatever pass 4 does (reading
\* the caches for the target display-name gap analysis, dispatching a bulk
\* record fetch) comes after every metadata request of pass 2 has been
\* answered, every answer has been set in the Metadata Cache and saveData
\* has been called; and the final projection comes after every record
\* request of pass 4 has been answered and applied to the Display Name
\* Cache.
C14_PhasesInOrder ==
    LET pass4 == FirstOf(InPass(4) \cup InPass(5))
        pass5 == FirstOf(InPass(5))
    IN  /\ pass4 <= Len(enrichLog) =>
             /\ Cardinality(Before("metadataSettled", pass4)) = Len(metadataRequests)
             /\ Cardinality(Before("setMetadata", pass4)) = Len(metadataRequests)
             /\ Cardinality(Before("saveData", pass4)) = 1
             /\ LastOf(InPass(1) \cup InPass(2) \cup InPass(3)) < pass4
        /\ pass5 <= Len(enrichLog) =>
             /\ Cardinality(Before("recordsSettled", pass5)) = Len(recordRequests)
             /\ LastOf(InPass(4)) < pass5
        /\ enrichPc \in {"awaitRecords", "done"} =>
             /\ AllFulfilled(metadataSettled)
             /\ _entityMetadataMap =
                    setResponses(atStart.map, ResponsesOf(metadataSettled))
        /\ enrichPc = "done" =>
             /\ AllFulfilled(recordSettled)
             /\ _recordIdToDisplayNameMap =
                    updateRecordDisplayNameStore(
                        atStart.names, _entityMetadataMap,
                        ResponsesOf(recordSettled)).names
C14_Witness ==
    /\ enrichPc = "done"
    /\ Len(metadataRequests) = 2
    /\ Len(recordRequests) = 2
    /\ Logged("setDisplayName")
    /\ Logged("buildEnrichedRowData")

MetadataWrites == Positions("setMetadata") \cup Positions("saveData")

\* C15 as stated: the Metadata Cache is written by pass 3 only, and within
\* a pass every read of it comes after pass 3 has completed.
C15_AllReadsAfterPass3 ==
    /\ \A p \in MetadataWrites : enrichLog[p].pass = 3
    /\ \A p \in Positions("readMetadata") : Before("saveData", p) # {}

\* C15: the Metadata Cache is written by pass 3 only.  The gap analysis of
\* pass 1 reads it before pass 3, as the pass found it; every other read
\* (the target display-name gap analysis and the application of the record
\* responses in pass 4, the final projection) comes after pass 3 has
\* completed and sees what pass 3 set.
C15_ReadsAroundPass3 ==
    LET firstWrite == FirstOf(MetadataWrites)
        lastWrite == LastOf(MetadataWrites)
        set == setResponses(atStart.map, ResponsesOf(metadataSettled))
    IN  /\ \A p \in MetadataWrites : enrichLog[p].pass = 3
        /\ _entityMetadataMap # atStart.map => Logged("saveData")
        /\ \A p \in Positions("readMetadata") :
             \/ enrichLog[p].pass = 1 /\ p < firstWrite
             \/ /\ enrichLog[p].pass \in {4, 5}
                /\ Before("saveData", p) # {}
                /\ lastWrite < p
        /\ \A p \in Positions("buildEnrichedRowData") : lastWrite < p
        /\ enrichPc # "start" =>
             metadataRequests =
                 buildEntityMetadataRequests(rawRowData, atStart.map).requests
        /\ Logged("saveData") =>
             /\ _entityMetadataMap = set
             /\ recordRequests =
                    buildEntityPrimaryNameValueRequests(
                        rawRowData, set, atStart.names).requests
        /\ enrichPc = "done" =>
             rowData = buildEnrichedRowData(rawRowData, set,
                                            _recordIdToDisplayNameMap)
C15_Witness ==
    /\ enrichPc = "done"
    /\ _entityMetadataMap # atStart.map
    /\ \E p \in Positions("readMetadata") : enrichLog[p].pass = 1
    /\ \E p \in Positions("readMetadata") : enrichLog[p].pass = 4
    /\ recordRequests # <<>>

ItemsOf(enrichedRow) ==
    IF enrichedRow.enrichedChangeData = Undefined THEN <<>>
    ELSE enrichedRow.enrichedChangeData.v

\* The label the projection owes a change item of a row of the given type.
LabelFor(type, field) ==
    LET attribute == getAttribute(_entityMetadataMap, type, field)
    IN  IF IsNullish(attribute) \/ IsNullish(Get(attribute, "displayName"))
            THEN Str(field)
        ELSE Get(attribute, "displayName")

\* A projected side of a target record is what the claim says it is.
SideProjected(raw, projected, type) ==
    IF Falsy(raw.lookup) THEN projected = raw
    ELSE /\ projected.lookup = raw.lookup
         /\ LET primaryName == getDisplayName(_recordIdToDisplayNameMap,
                                              raw.lookup.id.v)
                displayName == getEntityDisplayName(_entityMetadataMap, type)
            IN  IF ~IsNullish(primaryName) THEN projected.text = primaryName
                ELSE IsNullish(displayName) \/ projected.text = displayName

\* C16: the final projection keeps the number and order of rows and of the
\* items of each row; every change item gets the cached attribute display
\* name as label, or the raw field key when none is cached; every
\* target-record side with a reference gets the cached primary name of the
\* record as text, or the display name of its entity type, and a side
\* without a reference is left as it was.
C16_ProjectionCoversEveryItem ==
    enrichPc = "done" =>
        /\ Len(rowData.v) = Len(rawRowData)
        /\ \A i \in 1..Len(rawRowData) :
             LET row == rawRowData[i]
                 items == ItemsOf(rowData.v[i])
                 changes == ChangesOf(row)
                 targets == TargetsOf(row)
             IN  /\ rowData.v[i].id = row.id
                 /\ Len(items) = Len(changes) + Len(targets)
                 /\ \A c \in 1..Len(changes) :
                      /\ items[c].changedFieldLogicalName
                             = changes[c].changedFieldLogicalName
                      /\ items[c].changedFieldDisplayName
                             = LabelFor(row.entityReference.logicalName,
                                        changes[c].changedFieldLogicalName)
                 /\ \A t \in 1..Len(targets) :
                      LET item == items[Len(changes) + t]
                          type == targets[t].changedEntityLogicalName
                      IN  /\ item.changedFieldLogicalName = type
                          /\ SideProjected(targets[t].oldValueRaw, item.oldValue, type)
                          /\ SideProjected(targets[t].newValueRaw, item.newValue, type)


\* A record of the response lacks its id or its primary name.
LacksValue(response, select) ==
    \E k \in 1..Len(response.entities) :
        \/ IsNullish(Read(response.entities[k], select[1]))
        \/ IsNullish(Read(response.entities[k], response.entityLogicalName \o "id"))
BadRecordReceived ==
    \E i \in 1..Len(recordSettled) :
        /\ recordSettled[i].kind = "ok"
        /\ LacksValue(recordSettled[i].response, recordRequests[i].select)

\* C19: when a record answered by a bulk fetch of pass 4 lacks its id or
\* its primary name, the pass fails, produces no rows, and leaves in the
\* Display Name Cache no entry written from the responses of that pass.
C19_BadRecordFailsWithoutWrites ==
    (BadRecordReceived /\ enrichPc # "awaitRecords") =>
        /\ enrichPc = "failed"
        /\ rowData = Undefined
        /\ _recordIdToDisplayNameMap = atStart.names

\* The ids of all record requests of the pass for the given type, in order.
RequestedIds(T) ==
    LET ofType == SelectSeq(recordRequests, LAMBDA r : r.entityLogicalName = T)
    IN  IF ofType = <<>> THEN <<>> ELSE ofType[1].ids

\* The target record is one pass 4 has to fetch the name of: the
\* primary-name attribute of its type is known once pass 3 is done and the
\* Display Name Cache has no name for its id.
ToFetch(target) ==
    /\ ~Falsy(getEntityPrimaryNameAttribute(
                  _entityMetadataMap, target.changedEntityLogicalName))
    /\ Falsy(getDisplayName(atStart.names, target.changedEntityId))

AllTargets ==
    UNION { {TargetsOf(rawRowData[i])[t] : t \in 1..Len(TargetsOf(rawRowData[i]))} :
            i \in 1..Len(rawRowData) }

\* C21: in pass 4 an id is in the request for type T only if it is the id of
\* a target record of type T whose primary-name attribute is known after
\* pass 3 and that has no entry in the Display Name Cache; every such target
\* id is in the request for its type and in no other; there is one request
\* per type at most, and none with an empty id list.
C21_RecordRequestsAreTheGaps ==
    Logged("saveData") /\ ~FailedInPass(3) =>
        /\ \A i \in 1..Len(recordRequests) :
             LET request == recordRequests[i]
             IN  /\ request.ids # <<>>
                 /\ request.select =
                        <<getEntityPrimaryNameAttribute(
                              _entityMetadataMap, request.entityLogicalName).v>>
                 /\ \A j \in 1..Len(recordRequests) :
                      recordRequests[j].entityLogicalName = request.entityLogicalName
                          => i = j
                 /\ \A k \in 1..Len(request.ids) :
                      \E target \in AllTargets :
                          /\ target.changedEntityId = request.ids[k]
                          /\ target.changedEntityLogicalName = request.entityLogicalName
                          /\ ToFetch(target)
        /\ \A target \in AllTargets :
             ToFetch(target) =>
                 \A i \in 1..Len(recordRequests) :
                     (\E k \in 1..Len(recordRequests[i].ids) :
                          recordRequests[i].ids[k] = target.changedEntityId)
                     <=> recordRequests[i].entityLogicalName
                             = target.changedEntityLogicalName
        /\ \A target \in AllTargets :
             ToFetch(target) =>
                 \E i \in 1..Len(recordRequests) :
                     recordRequests[i].entityLogicalName
                         = target.changedEntityLogicalName
C21_Witness ==
    /\ Len(recordRequests) = 2
    /\ \E target \in AllTargets : ~ToFetch(target)
    /\ \E target \in AllTargets : ToFetch(target)

\* C28: within one pass no record id is requested more than once across the
\* bulk fetch requests of pass 4.
C28_NoIdRequestedTwice ==
    \A i, j \in 1..Len(recordRequests) :
        \A k \in 1..Len(recordRequests[i].ids), l \in 1..Len(recordRequests[j].ids) :
            recordRequests[i].ids[k] = recordRequests[j].ids[l] => (i = j /\ k = l)

\* C29: a pass that follows a pass that succeeded with every request fully
\* answered, over the same audit items and the same two caches, dispatches
\* no metadata request and no record request, does not fail, and produces
\* the rows the pass before produced.
C29_SecondPassFetchesNothing ==
    (atStart.pass > 1 /\ atStart.previous.full) =>
        /\ metadataRequests = <<>>
        /\ recordRequests = <<>>
        /\ ~Logged("fetchEntityMetadata") /\ ~Logged("fetchMultipleRecords")
        /\ enrichPc # "failed"
        /\ enrichPc = "done" => rowData = atStart.previous.rows
C29_Witness ==
    /\ atStart.pass > 1
    /\ atStart.previous.full
    /\ atStart.previous.requests >= 3
    /\ enrichPc = "done"
    /\ \E i \in 1..Len(rowData.v) : ItemsOf(rowData.v[i]) # <<>>

=============================================================================
